---- MODULE Spec2Model ----
(***************************************************************************)
(* GroqService (src/services/groqService.js): the chat-completion client   *)
(* with its retry loop (generateResponse) and its model selector           *)
(* (findBestAvailableModel).  One action is the code that runs between two *)
(* awaits of a call; the upstream's answer to each request is the input of *)
(* the action that resumes the call.                                       *)
(***************************************************************************)
EXTENDS Integers, Sequences, FiniteSets, TLC

VARIABLES
    apiKey,               \* this.apiKey / this.groq are set (isServiceAvailable)
    preferredModels,      \* this.preferredModels
    model,                \* this.model, the current (pinned) model
    pc,                   \* where the running call is suspended
    op,                   \* the public method that is running or has ended
    attempt,              \* generateResponse: the loop counter
    modelToUse,           \* generateResponse: local modelToUse
    triedModelFallback,   \* generateResponse: local triedModelFallback
    lastError,            \* generateResponse: local lastError
    probeIdx,             \* findBestAvailableModel: position in preferredModels
    requests,             \* this call: completion requests issued by generateResponse
    sleeps,               \* this call: _sleep calls made by generateResponse
    repins,               \* this call: the re-pins generateResponse asked for
    probes,               \* this call: probes of the latest findBestAvailableModel
    modelBefore,          \* this.model when the latest findBestAvailableModel began
    probeResult,          \* this call: how the latest findBestAvailableModel ended
    result,               \* this call: how generateResponse ended
    message,              \* this call: the argument message
    history,              \* this call: the caller's conversationHistory array
    messages,             \* generateResponse: local messages
    assessment,           \* this call: the crisis assessment that routed it
    options,              \* this call: the options argument of generateResponse
    validated,            \* validateResponse: the argument of the latest call
    validation,           \* validateResponse: the result of the latest call
    rawText,              \* _preprocessText: the argument of the latest call
    processed,            \* _preprocessText: the result of the latest call
    raised,               \* _preprocessText: the error the latest call raised
    audioChecked,         \* validateAudioFile: the arguments of the latest call
    audioValidation,      \* validateAudioFile: how the latest call ended
    tasks                 \* the calls that run concurrently on the one service

callVars == <<message, history, messages, assessment, options>>

textVars == <<validated, validation, rawText, processed, raised, audioChecked,
              audioValidation>>

vars == <<apiKey, preferredModels, model, pc, op, attempt, modelToUse,
          triedModelFallback, lastError, probeIdx, requests, sleeps, repins,
          probes, modelBefore, probeResult, result, callVars, textVars, tasks>>

(***************************************************************************)
(* Configuration set by the constructor.                                   *)
(***************************************************************************)
maxRetries == 3
retryDelay == 1000
maxTokens == 300
crisisMaxTokens == 150
\* variant: a first model that is not among the candidates
DefaultModel_Unlisted ==
    "mixtral-8x7b-32768"

DefaultModel ==
    "llama-3.1-8b-instant"
ConfiguredModels == <<"llama-3.1-8b-instant", "gemma2-9b-it">>

(***************************************************************************)
(* Bounds of the model: the texts an upstream completion may carry.        *)
(***************************************************************************)
MaxContentLen == 2
Chars == {" ", "a"}
Whitespace == {" "}
Contents == UNION {[1..n -> Chars] : n \in 0..MaxContentLen}

(***************************************************************************)
(* What the upstream can answer to one chat.completions.create request.    *)
(* status 0 stands for an error object without a status property.          *)
(***************************************************************************)
NoStatus == 0
Statuses == {400, 401, 403, 404, 429, 500, 503, NoStatus}
Pending == [kind |-> "pending", status |-> NoStatus, content |-> <<>>]
Completion(c) == [kind |-> "ok", status |-> NoStatus, content |-> c]
NullContent == [kind |-> "nullContent", status |-> NoStatus, content |-> <<>>]
NoMessage == [kind |-> "noMessage", status |-> NoStatus, content |-> <<>>]
NoChoices == [kind |-> "noChoices", status |-> NoStatus, content |-> <<>>]
Failure(s) == [kind |-> "error", status |-> s, content |-> <<>>]
Outcomes ==
    {Completion(c) : c \in Contents} \cup {NullContent, NoMessage, NoChoices}
        \cup {Failure(s) : s \in Statuses}
ProbeOutcomes ==
    {Completion(<<"a">>), NoMessage, NoChoices} \cup {Failure(s) : s \in {401, 404, 500, NoStatus}}

(***************************************************************************)
(* String.prototype.trim on a text held as a sequence of characters.       *)
(***************************************************************************)
RECURSIVE TrimStart(_)
TrimStart(s) ==
    IF s = <<>> THEN <<>>
    ELSE IF Head(s) \in Whitespace THEN TrimStart(Tail(s)) ELSE s

RECURSIVE TrimEnd(_)
TrimEnd(s) ==
    IF s = <<>> THEN <<>>
    ELSE IF s[Len(s)] \in Whitespace THEN TrimEnd(SubSeq(s, 1, Len(s) - 1)) ELSE s

Trim(s) == TrimEnd(TrimStart(s))

(***************************************************************************)
(* String.prototype.includes on texts held as sequences of characters.     *)
(***************************************************************************)
Includes(text, part) ==
    \E i \in 1..(Len(text) - Len(part) + 1) : SubSeq(text, i, i + Len(part) - 1) = part

(***************************************************************************)
(* Regular expressions of validateResponse on texts held as sequences of   *)
(* characters: \b, \s, the i flag, and RegExp.prototype.test for a pattern *)
(* \b(p1|p2|...)\b.                                                        *)
(***************************************************************************)
LowerLetters ==
    <<"a", "b", "c", "d", "e", "f", "g", "h", "i", "j", "k", "l", "m",
      "n", "o", "p", "q", "r", "s", "t", "u", "v", "w", "x", "y", "z">>
UpperLetters ==
    <<"A", "B", "C", "D", "E", "F", "G", "H", "I", "J", "K", "L", "M",
      "N", "O", "P", "Q", "R", "S", "T", "U", "V", "W", "X", "Y", "Z">>
Letters == {LowerLetters[i] : i \in DOMAIN LowerLetters} \cup {UpperLetters[i] : i \in DOMAIN UpperLetters}
Digits == {"0", "1", "2", "3", "4", "5", "6", "7", "8", "9"}
WordChars == Letters \cup Digits \cup {"_"}
SpaceChars == {" ", "\t", "\n"}

LowerOf ==
    [c \in {UpperLetters[i] : i \in DOMAIN UpperLetters} |->
        LowerLetters[CHOOSE i \in DOMAIN UpperLetters : UpperLetters[i] = c]]

ToLower(c) == IF c \in DOMAIN LowerOf THEN LowerOf[c] ELSE c

WordAt(t, p) == p \in 1..Len(t) /\ t[p] \in WordChars

\* \b between the characters p - 1 and p
Boundary(t, p) == WordAt(t, p - 1) # WordAt(t, p)

\* the part, written in lower case, is at position p of t in any case
OccursAt(t, part, p) ==
    /\ p + Len(part) - 1 <= Len(t)
    /\ \A j \in 1..Len(part) : ToLower(t[p + j - 1]) = part[j]

\* the positions where \b followed by a word character can match
WordStarts(t) == {p \in 1..Len(t) : WordAt(t, p) /\ ~WordAt(t, p - 1)}

\* /\b(p1|p2|...)\b/i.test(text), every pi beginning with a word character
TestWords(t, starts, phrases) ==
    \E p \in starts : \E part \in phrases :
        OccursAt(t, part, p) /\ Boundary(t, p + Len(part))

\* /\b(a1|a2|...)\s+(b1|b2|...)\b/i.test(text)
TestWordsSpaceWords(t, starts, firsts, seconds) ==
    \E p \in starts : \E a \in firsts :
        /\ OccursAt(t, a, p)
        /\ \E k \in 1..(Len(t) - p) :
              /\ \A j \in 0..(k - 1) :
                    /\ p + Len(a) + j <= Len(t)
                    /\ t[p + Len(a) + j] \in SpaceChars
              /\ \E b \in seconds :
                    /\ OccursAt(t, b, p + Len(a) + k)
                    /\ Boundary(t, p + Len(a) + k + Len(b))

(***************************************************************************)
(* validateResponse: the patterns.                                         *)
(***************************************************************************)
inappropriatePatterns ==
    <<{<<"k", "i", "l", "l", " ", "y", "o", "u", "r", "s", "e", "l", "f">>, <<"e", "n", "d", " ", "i", "t", " ", "a", "l", "l">>, <<"y", "o", "u", " ", "s", "h", "o", "u", "l", "d", " ", "d", "i", "e">>},
      {<<"w", "o", "r", "t", "h", "l", "e", "s", "s">>, <<"h", "o", "p", "e", "l", "e", "s", "s">>, <<"n", "o", " ", "p", "o", "i", "n", "t">>},
      {<<"g", "i", "v", "e", " ", "u", "p">>, <<"i", "t", "'", "s", " ", "o", "v", "e", "r">>, <<"n", "o", "t", "h", "i", "n", "g", " ", "m", "a", "t", "t", "e", "r", "s">>}>>

medicalWords ==
    {<<"d", "i", "a", "g", "n", "o", "s", "e">>,
     <<"d", "i", "a", "g", "n", "o", "s", "i", "s">>,
     <<"m", "e", "d", "i", "c", "a", "t", "i", "o", "n">>,
     <<"p", "r", "e", "s", "c", "r", "i", "b", "e">>,
     <<"m", "e", "d", "i", "c", "a", "l", " ", "c", "o", "n", "d", "i", "t", "i", "o", "n">>}
medicalLeads ==
    {<<"y", "o", "u", " ", "h", "a", "v", "e">>,
     <<"y", "o", "u", " ", "a", "r", "e">>,
     <<"y", "o", "u", " ", "s", "u", "f", "f", "e", "r", " ", "f", "r", "o", "m">>}
medicalConditions ==
    {<<"d", "e", "p", "r", "e", "s", "s", "i", "o", "n">>,
     <<"a", "n", "x", "i", "e", "t", "y">>,
     <<"b", "i", "p", "o", "l", "a", "r">>,
     <<"a", "d", "h", "d">>,
     <<"p", "t", "s", "d">>}

supportivePatterns ==
    <<{<<"u", "n", "d", "e", "r", "s", "t", "a", "n", "d">>,
       <<"s", "u", "p", "p", "o", "r", "t">>,
       <<"h", "e", "r", "e", " ", "f", "o", "r", " ", "y", "o", "u">>,
       <<"n", "o", "t", " ", "a", "l", "o", "n", "e">>,
       <<"v", "a", "l", "i", "d">>,
       <<"o", "k", "a", "y">>,
       <<"h", "e", "l", "p">>,
       <<"l", "i", "s", "t", "e", "n">>,
       <<"c", "a", "r", "e">>,
       <<"f", "e", "e", "l">>,
       <<"s", "o", "r", "r", "y">>,
       <<"e", "m", "p", "a", "t", "h", "y">>,
       <<"c", "o", "m", "p", "a", "s", "s", "i", "o", "n">>},
      {<<"r", "e", "a", "c", "h", " ", "o", "u", "t">>,
       <<"t", "a", "l", "k", " ", "t", "o">>,
       <<"c", "o", "n", "t", "a", "c", "t">>,
       <<"p", "r", "o", "f", "e", "s", "s", "i", "o", "n", "a", "l">>,
       <<"c", "o", "u", "n", "s", "e", "l", "o", "r">>,
       <<"t", "h", "e", "r", "a", "p", "i", "s", "t">>,
       <<"f", "r", "i", "e", "n", "d">>,
       <<"f", "a", "m", "i", "l", "y">>},
      {<<"n", "o", "r", "m", "a", "l">>,
       <<"c", "o", "m", "m", "o", "n">>,
       <<"n", "a", "t", "u", "r", "a", "l">>,
       <<"b", "r", "a", "v", "e">>,
       <<"c", "o", "u", "r", "a", "g", "e">>,
       <<"s", "t", "r", "e", "n", "g", "t", "h">>,
       <<"s", "t", "r", "o", "n", "g">>,
       <<"c", "a", "p", "a", "b", "l", "e">>},
      {<<"b", "e", "t", "t", "e", "r">>,
       <<"i", "m", "p", "r", "o", "v", "e">>,
       <<"c", "o", "p", "e">>,
       <<"m", "a", "n", "a", "g", "e">>,
       <<"h", "a", "n", "d", "l", "e">>,
       <<"d", "e", "a", "l", " ", "w", "i", "t", "h">>,
       <<"w", "o", "r", "k", " ", "t", "h", "r", "o", "u", "g", "h">>}>>

\* the scans of a text, given the positions where its words start
HarmfulScan(text, starts) ==
    \E i \in DOMAIN inappropriatePatterns :
        TestWords(text, starts, inappropriatePatterns[i])

MedicalScan(text, starts) ==
    \/ TestWords(text, starts, medicalWords)
    \/ TestWordsSpaceWords(text, starts, medicalLeads, medicalConditions)

SupportiveScan(text, starts) ==
    \E i \in DOMAIN supportivePatterns : TestWords(text, starts, supportivePatterns[i])

(***************************************************************************)
(* validateResponse: the issues and the result.                            *)
(***************************************************************************)
SupportiveCheckLength == 100
MaxResponseLength == 1500

IssueInvalid == "Empty or invalid response"
IssueHarmful == "Contains potentially harmful language"
IssueMedical == "Contains medical advice or diagnosis"
IssueUnsupportive == "Lacks supportive language"
IssueTooLong == "Response too long (over 1500 characters)"

\* variants: the limit itself counts as beyond it
LacksSupportive_FromLimit(hasSupportiveLanguage, length) ==
    ~hasSupportiveLanguage /\ length >= SupportiveCheckLength

TooLong_FromLimit(length) == length >= MaxResponseLength

LacksSupportive(hasSupportiveLanguage, length) ==
    ~hasSupportiveLanguage /\ length > SupportiveCheckLength

TooLong(length) == length > MaxResponseLength

When(cond, issue) == IF cond THEN <<issue>> ELSE <<>>

\* a variant that stops at the first issue found
CollectIssues_FirstOnly(harmful, medical, unsupportive, tooLong) ==
    IF harmful THEN <<IssueHarmful>>
    ELSE IF medical THEN <<IssueMedical>>
    ELSE IF unsupportive THEN <<IssueUnsupportive>>
    ELSE When(tooLong, IssueTooLong)

CollectIssues(harmful, medical, unsupportive, tooLong) ==
    When(harmful, IssueHarmful) \o When(medical, IssueMedical)
        \o When(unsupportive, IssueUnsupportive) \o When(tooLong, IssueTooLong)

RejectedArgument(r) == r.type # "string" \/ Len(r.text) = 0

ValidateResponse(r) ==
    IF RejectedArgument(r)
    THEN [isValid |-> FALSE, issues |-> <<IssueInvalid>>,
          hasSupportiveLanguage |-> FALSE, length |-> 0,
          fields |-> {"isValid", "issues"}]
    ELSE LET starts == WordStarts(r.text)
             hasSupportiveLanguage == SupportiveScan(r.text, starts)
             issues ==
                 CollectIssues(HarmfulScan(r.text, starts), MedicalScan(r.text, starts),
                               LacksSupportive(hasSupportiveLanguage, Len(r.text)),
                               TooLong(Len(r.text)))
         IN  [isValid |-> Len(issues) = 0, issues |-> issues,
              hasSupportiveLanguage |-> hasSupportiveLanguage, length |-> Len(r.text),
              fields |-> {"isValid", "issues", "hasSupportiveLanguage", "length"}]

(***************************************************************************)
(* Errors.  An Error object is held as its message template, with the      *)
(* values the template interpolates.                                       *)
(***************************************************************************)
NoError == [message |-> "", attempts |-> 0, cause |-> ""]
SimpleError(msg) == [message |-> msg, attempts |-> 0, cause |-> ""]
\* a variant that drops the interpolated values
CompositeError_Generic(n, cause) ==
    [message |-> "Groq service failed", attempts |-> 0, cause |-> ""]

CompositeError(n, cause) ==
    [message |-> "Groq service failed after ${attempts} attempts: ${cause}",
     attempts |-> n, cause |-> cause]
ErrNotConfigured == SimpleError("Groq service not configured - API key missing")
ErrProbeNotConfigured == SimpleError("Groq service not configured")
ErrInvalidMessage == SimpleError("Invalid message provided")
ErrRateLimit == SimpleError("Rate limit exceeded. Please try again later.")
ErrInvalidKey == SimpleError("Invalid Groq API key")
ErrInvalidRequest == SimpleError("Invalid request format")
ErrNoModels == SimpleError("No available models found on Groq")

UpstreamMessage(s) ==
    CASE s = 400 -> "upstream: bad request"
      [] s = 401 -> "upstream: unauthorized"
      [] s = 403 -> "upstream: forbidden"
      [] s = 404 -> "upstream: model not found"
      [] s = 429 -> "upstream: rate limit reached"
      [] s = 500 -> "upstream: internal server error"
      [] s = 503 -> "upstream: service unavailable"
      [] OTHER -> "upstream: connection error"

NoCaught == [status |-> NoStatus, message |-> ""]

isServiceAvailable == apiKey

(***************************************************************************)
(* generateResponse: what one attempt's try block makes of the answer.     *)
(***************************************************************************)
HasChoice(o) == o.kind \in {"ok", "nullContent", "noMessage"}

HasMessage(o) == o.kind \in {"ok", "nullContent"}

\* a variant that also asks validateResponse
IsSuccess_Validated(o) ==
    /\ o.kind = "ok"
    /\ Len(Trim(o.content)) # 0
    /\ ValidateResponse([type |-> "string", text |-> Trim(o.content)]).isValid

\* a variant that returns whatever content the completion carries
IsSuccess_AnyContent(o) == o.kind = "ok"

IsSuccess(o) == o.kind = "ok" /\ Len(Trim(o.content)) # 0

CaughtError(o) ==
    CASE o.kind = "error" -> [status |-> o.status, message |-> UpstreamMessage(o.status)]
      [] o.kind = "nullContent" ->
            [status |-> NoStatus, message |-> "Cannot read properties of null"]
      [] o.kind = "ok" -> [status |-> NoStatus, message |-> "Empty response from Groq API"]
      [] OTHER ->
            [status |-> NoStatus, message |-> "Unexpected response format from Groq API"]

(***************************************************************************)
(* generateResponse: the catch block after the model fallback, as the      *)
(* step it decides on: sleep, throw, or fall out of the loop body.         *)
(***************************************************************************)
\* variants: the same delay before every retry; the attempt counted from zero
BackoffDelay_Constant(att) == retryDelay

BackoffDelay_ZeroBased(att) == retryDelay * (att - 1)

BackoffDelay(att) == retryDelay * att

DoSleep(ms) == [do |-> "sleep", ms |-> ms, err |-> NoError]
DoThrow(e) == [do |-> "throw", ms |-> 0, err |-> e]
DoFallThrough == [do |-> "next", ms |-> 0, err |-> NoError]

\* variants: 401 retried like any other error; 400 retried like any other
\* error; a sleep also after the last attempt
RetryPolicy_Retry401(status, att) ==
    IF status = 429
    THEN IF att < maxRetries THEN DoSleep(BackoffDelay(att)) ELSE DoThrow(ErrRateLimit)
    ELSE IF status = 400 THEN DoThrow(ErrInvalidRequest)
    ELSE IF att < maxRetries THEN DoSleep(BackoffDelay(att))
    ELSE DoFallThrough

RetryPolicy_Retry400(status, att) ==
    IF status = 429
    THEN IF att < maxRetries THEN DoSleep(BackoffDelay(att)) ELSE DoThrow(ErrRateLimit)
    ELSE IF status = 401 THEN DoThrow(ErrInvalidKey)
    ELSE IF att < maxRetries THEN DoSleep(BackoffDelay(att))
    ELSE DoFallThrough

RetryPolicy_SleepAfterLast(status, att) ==
    IF status = 429
    THEN IF att < maxRetries THEN DoSleep(BackoffDelay(att)) ELSE DoThrow(ErrRateLimit)
    ELSE IF status = 401 THEN DoThrow(ErrInvalidKey)
    ELSE IF status = 400 THEN DoThrow(ErrInvalidRequest)
    ELSE IF att <= maxRetries THEN DoSleep(BackoffDelay(att))
    ELSE DoFallThrough

\* variants: an error without a status of 500 or more is not waited for; a
\* server error ends the call; a 429 on the last attempt is left to the end
\* of the loop
RetryPolicy_NoWaitWithoutStatus(status, att) ==
    IF status = 429
    THEN IF att < maxRetries THEN DoSleep(BackoffDelay(att)) ELSE DoThrow(ErrRateLimit)
    ELSE IF status = 401 THEN DoThrow(ErrInvalidKey)
    ELSE IF status = 400 THEN DoThrow(ErrInvalidRequest)
    ELSE IF status >= 500 /\ att < maxRetries THEN DoSleep(BackoffDelay(att))
    ELSE DoFallThrough

RetryPolicy_ThrowServerError(status, att) ==
    IF status = 429
    THEN IF att < maxRetries THEN DoSleep(BackoffDelay(att)) ELSE DoThrow(ErrRateLimit)
    ELSE IF status = 401 THEN DoThrow(ErrInvalidKey)
    ELSE IF status = 400 THEN DoThrow(ErrInvalidRequest)
    ELSE IF status >= 500 THEN DoThrow(CompositeError(att, UpstreamMessage(status)))
    ELSE IF att < maxRetries THEN DoSleep(BackoffDelay(att))
    ELSE DoFallThrough

RetryPolicy_RateLimitFallsThrough(status, att) ==
    IF status = 401 THEN DoThrow(ErrInvalidKey)
    ELSE IF status = 400 THEN DoThrow(ErrInvalidRequest)
    ELSE IF att < maxRetries THEN DoSleep(BackoffDelay(att))
    ELSE DoFallThrough

RetryPolicy(status, att) ==
    IF status = 429
    THEN IF att < maxRetries THEN DoSleep(BackoffDelay(att)) ELSE DoThrow(ErrRateLimit)
    ELSE IF status = 401 THEN DoThrow(ErrInvalidKey)
    ELSE IF status = 400 THEN DoThrow(ErrInvalidRequest)
    ELSE IF status >= 500 /\ att < maxRetries THEN DoSleep(BackoffDelay(att))
    ELSE IF att < maxRetries THEN DoSleep(BackoffDelay(att))
    ELSE DoFallThrough

WantsModelFallback(status, tried) == status = 404 /\ ~tried

(***************************************************************************)
(* findBestAvailableModel: what the loop makes of one probe's answer.      *)
(***************************************************************************)
\* variants: any answer that is no error pins the candidate; 401 skips the
\* candidate like any other error
ProbeVerdict_PinAnyAnswer(o) ==
    IF o.kind # "error" THEN "pin"
    ELSE IF o.status = 401 THEN "abort"
    ELSE "skip"

ProbeVerdict_SkipUnauthorized(o) ==
    IF o.kind # "error"
    THEN IF HasChoice(o) THEN "pin" ELSE "skip"
    ELSE "skip"

\* variant: every error other than 404 ends the probe
ProbeVerdict_AbortOnError(o) ==
    IF o.kind # "error"
    THEN IF HasChoice(o) THEN "pin" ELSE "skip"
    ELSE IF o.status = 404 THEN "skip"
    ELSE "abort"

\* variant: a candidate that is not found is pinned
ProbeVerdict_PinNotFound(o) ==
    IF o.kind # "error"
    THEN IF HasChoice(o) THEN "pin" ELSE "skip"
    ELSE IF o.status = 404 THEN "pin"
    ELSE IF o.status = 401 THEN "abort"
    ELSE "skip"

ProbeVerdict(o) ==
    IF o.kind # "error"
    THEN IF HasChoice(o) THEN "pin" ELSE "skip"
    ELSE IF o.status = 404 THEN "skip"
    ELSE IF o.status = 401 THEN "abort"
    ELSE "skip"

Returned(v) == [kind |-> "return", value |-> v, error |-> NoError]
Thrown(e) == [kind |-> "throw", value |-> <<>>, error |-> e]
NoResult == [kind |-> "none", value |-> <<>>, error |-> NoError]
ProbeReturned(m) == [kind |-> "return", value |-> m, error |-> NoError]
ProbeThrown(e) == [kind |-> "throw", value |-> "", error |-> e]
NoProbeResult == [kind |-> "none", value |-> "", error |-> NoError]
NotPinned == ""
\* options = {}: no maxTokens property (0 stands for undefined)
NoOptions == [maxTokens |-> 0]
NotAssessed == [assessed |-> FALSE, triggered |-> FALSE, text |-> <<>>]
NoArgument == [type |-> "undefined", text |-> <<>>]
NoValidation ==
    [isValid |-> FALSE, issues |-> <<>>, hasSupportiveLanguage |-> FALSE, length |-> 0,
     fields |-> {}]

\* the calls in flight at once: one logical task per inbound request
Tasks == {"A", "B"}
IdleTask ==
    [op |-> "none", outer |-> "none", pc |-> "idle", attempt |-> 0,
     modelToUse |-> NotPinned, triedModelFallback |-> FALSE, lastError |-> NoCaught,
     probeIdx |-> 0, startModel |-> NotPinned, pinned |-> NotPinned, used |-> <<>>,
     ended |-> "none"]

NoAudio == [buffer |-> [kind |-> "none", length |-> 0], contentType |-> ""]
NoAudioValidation == [kind |-> "none", isValid |-> FALSE, errors |-> <<>>]

Init ==
    /\ apiKey \in BOOLEAN
    /\ preferredModels = ConfiguredModels
    /\ model = DefaultModel
    /\ pc = "idle"
    /\ op = "none"
    /\ attempt = 0
    /\ modelToUse = DefaultModel
    /\ triedModelFallback = FALSE
    /\ lastError = NoCaught
    /\ probeIdx = 0
    /\ requests = <<>>
    /\ sleeps = <<>>
    /\ repins = <<>>
    /\ probes = <<>>
    /\ modelBefore = DefaultModel
    /\ probeResult = NoProbeResult
    /\ result = NoResult
    /\ message = NoArgument
    /\ history = <<>>
    /\ messages = <<>>
    /\ assessment = NotAssessed
    /\ options = NoOptions
    /\ validated = NoArgument
    /\ validation = NoValidation
    /\ rawText = NoArgument
    /\ processed = <<>>
    /\ raised = NoError
    /\ audioChecked = NoAudio
    /\ audioValidation = NoAudioValidation
    /\ tasks = [t \in Tasks |-> IdleTask]

(***************************************************************************)
(* Inputs of generateResponse(message, ...).                               *)
(***************************************************************************)
MessageInputs ==
    {[type |-> "undefined", text |-> <<>>], [type |-> "object", text |-> <<>>],
     [type |-> "string", text |-> <<>>], [type |-> "string", text |-> <<"a">>]}

\* a variant that accepts the empty string
ValidMessage_AnyString(m) == m.type = "string"

ValidMessage(m) ==
    m.type = "string" /\ Len(m.text) # 0

(***************************************************************************)
(* Inputs of generateResponse(..., conversationHistory): turn i of a       *)
(* history carries the text #i; the turns alternate between user and       *)
(* assistant, but for turn k, which has the system role (k = 0: no turn).  *)
(***************************************************************************)
SpecMaxHistory == 1
MaxHistory == 15
DigitChars == <<"0", "1", "2", "3", "4", "5", "6", "7", "8", "9">>

Decimal(i) ==
    IF i < 10 THEN <<DigitChars[i + 1]>>
    ELSE <<DigitChars[(i \div 10) + 1], DigitChars[(i % 10) + 1]>>

TurnText(i) == <<"#">> \o Decimal(i)

HistoryOf(n, k) ==
    [i \in 1..n |->
        [role |-> IF i = k THEN "system" ELSE IF i % 2 = 1 THEN "user" ELSE "assistant",
         content |-> TurnText(i)]]

Histories(maxLen) == {HistoryOf(n, k) : n \in 0..maxLen, k \in 0..maxLen}

\* the histories without a turn of the system role
PlainHistories(maxLen) == {HistoryOf(n, 0) : n \in 0..maxLen}

(***************************************************************************)
(* generateResponse: the messages array.                                   *)
(***************************************************************************)
HistoryLimit == 10
SystemPromptText == <<"this.systemPrompt">>
SystemTurn == [role |-> "system", content |-> SystemPromptText]
UserTurn(text) == [role |-> "user", content |-> text]

\* variants: the oldest turns instead of the most recent; no limit
RecentHistory_Oldest(h) ==
    IF Len(h) <= HistoryLimit THEN h ELSE SubSeq(h, 1, HistoryLimit)

RecentHistory_All(h) == h

\* conversationHistory.slice(-10)
RecentHistory(h) ==
    IF Len(h) <= HistoryLimit THEN h
    ELSE SubSeq(h, Len(h) - HistoryLimit + 1, Len(h))

\* variant: splice(-10), which takes the turns out of the caller's array
HistoryLeft_Spliced(h) ==
    SubSeq(h, 1, Len(h) - Len(RecentHistory(h)))

\* the caller's array after conversationHistory.slice(-10) and the spread
\* into messages: slice copies, the array it is called on is left as it is
HistoryLeft(h) ==
    h

AssembleMessages(m, h) == <<SystemTurn>> \o RecentHistory(h) \o <<UserTurn(m.text)>>

(***************************************************************************)
(* The observations of validateResponse and _preprocessText are kept until *)
(* the next call of any method.                                            *)
(***************************************************************************)
ForgetTextCalls ==
    /\ validated' = NoArgument
    /\ validation' = NoValidation
    /\ rawText' = NoArgument
    /\ processed' = <<>>
    /\ raised' = NoError
    /\ UNCHANGED <<audioChecked, audioValidation>>

(***************************************************************************)
(* Steps shared by the actions of generateResponse.  Each sets pc,         *)
(* attempt, requests, sleeps and result.                                   *)
(***************************************************************************)
\* the for loop's increment and test, then the next attempt's request or
\* the throw after the loop
LoopAdvance(reqs, mdl, lerr) ==
    /\ attempt' = attempt + 1
    /\ sleeps' = sleeps
    /\ IF attempt + 1 <= maxRetries
       THEN /\ pc' = "completion"
            /\ requests' = Append(reqs,
                   [attempt |-> attempt + 1, model |-> mdl, outcome |-> Pending])
            /\ result' = result
       ELSE /\ pc' = "done"
            /\ requests' = reqs
            /\ result' = Thrown(CompositeError(maxRetries, lerr.message))

\* a variant that waits for the failed request again
AfterFallback_Hang(reqs, mdl, lerr) ==
    /\ pc' = "completion"
    /\ requests' = [reqs EXCEPT ![Len(reqs)].outcome = Pending]
    /\ UNCHANGED <<attempt, sleeps, result>>

\* the catch block from the status tests on
AfterFallback(reqs, mdl, lerr) ==
    LET step == RetryPolicy(lerr.status, attempt) IN
    CASE step.do = "sleep" ->
            /\ pc' = "sleep"
            /\ sleeps' = Append(sleeps, [after |-> Len(reqs), ms |-> step.ms])
            /\ requests' = reqs
            /\ UNCHANGED <<attempt, result>>
      [] step.do = "throw" ->
            /\ pc' = "done"
            /\ result' = Thrown(step.err)
            /\ requests' = reqs
            /\ UNCHANGED <<attempt, sleeps>>
      [] OTHER -> LoopAdvance(reqs, mdl, lerr)

\* findBestAvailableModel up to its first await
BeginProbe ==
    /\ modelBefore' = model
    /\ probeResult' = NoProbeResult
    /\ probeIdx' = 1
    /\ probes' = <<[model |-> preferredModels[1], outcome |-> Pending]>>

Answered(seq, o) == [seq EXCEPT ![Len(seq)].outcome = o]

(***************************************************************************)
(* generateResponse(message): entry, up to the first request.              *)
(***************************************************************************)
GenerateResponseEntry(m, h) ==
    /\ pc \in {"idle", "done"}
    /\ op' = "generateResponse"
    /\ message' = m
    /\ history' = HistoryLeft(h)
    /\ sleeps' = <<>>
    /\ repins' = <<>>
    /\ lastError' = NoCaught
    /\ triedModelFallback' = FALSE
    /\ IF ~isServiceAvailable
       THEN /\ pc' = "done"
            /\ result' = Thrown(ErrNotConfigured)
            /\ messages' = <<>>
            /\ requests' = <<>>
            /\ attempt' = 0
            /\ modelToUse' = model
       ELSE IF ~ValidMessage(m)
       THEN /\ pc' = "done"
            /\ result' = Thrown(ErrInvalidMessage)
            /\ messages' = <<>>
            /\ requests' = <<>>
            /\ attempt' = 0
            /\ modelToUse' = model
       ELSE /\ pc' = "completion"
            /\ result' = NoResult
            /\ messages' = AssembleMessages(m, h)
            /\ modelToUse' = model
            /\ attempt' = 1
            /\ requests' = <<[attempt |-> 1, model |-> model, outcome |-> Pending]>>
    /\ probeIdx' = 0
    /\ probes' = <<>>
    /\ modelBefore' = model
    /\ probeResult' = NoProbeResult
    /\ ForgetTextCalls
    /\ UNCHANGED <<tasks, apiKey, preferredModels, model>>

GenerateResponseCall(m, h) ==
    /\ GenerateResponseEntry(m, h)
    /\ assessment' = NotAssessed
    /\ options' = NoOptions

(***************************************************************************)
(* generateResponse: the upstream answers the attempt in flight.           *)
(***************************************************************************)
CompletionResponse(o) ==
    /\ pc = "completion"
    /\ LET answered == Answered(requests, o) IN
       IF IsSuccess(o)
       THEN /\ pc' = "done"
            /\ result' = Returned(Trim(o.content))
            /\ requests' = answered
            /\ UNCHANGED <<lastError, attempt, sleeps, probeIdx, probes, modelBefore,
                           probeResult>>
       ELSE LET e == CaughtError(o) IN
            /\ lastError' = e
            /\ IF WantsModelFallback(e.status, triedModelFallback)
               THEN /\ pc' = "probe"
                    /\ requests' = answered
                    /\ BeginProbe
                    /\ UNCHANGED <<attempt, sleeps, result>>
               ELSE /\ AfterFallback(answered, modelToUse, e)
                    /\ UNCHANGED <<probeIdx, probes, modelBefore, probeResult>>
    /\ UNCHANGED <<tasks, apiKey, preferredModels, model, op, modelToUse, triedModelFallback,
                   repins>>
    /\ UNCHANGED <<callVars, textVars>>

(***************************************************************************)
(* generateResponse: a backoff sleep ends.                                 *)
(***************************************************************************)
SleepDone ==
    /\ pc = "sleep"
    /\ LoopAdvance(requests, modelToUse, lastError)
    /\ UNCHANGED <<tasks, apiKey, preferredModels, model, op, modelToUse, triedModelFallback,
                   lastError, probeIdx, repins, probes, modelBefore, probeResult>>
    /\ UNCHANGED <<callVars, textVars>>

(***************************************************************************)
(* findBestAvailableModel(): entry, up to the first probe.                 *)
(***************************************************************************)
FindBestAvailableModelCall ==
    /\ pc \in {"idle", "done"}
    /\ op' = "findBestAvailableModel"
    /\ IF ~isServiceAvailable
       THEN /\ pc' = "done"
            /\ modelBefore' = model
            /\ probeResult' = ProbeThrown(ErrProbeNotConfigured)
            /\ probeIdx' = 0
            /\ probes' = <<>>
       ELSE /\ pc' = "probe"
            /\ BeginProbe
    /\ attempt' = 0
    /\ modelToUse' = model
    /\ triedModelFallback' = FALSE
    /\ lastError' = NoCaught
    /\ requests' = <<>>
    /\ sleeps' = <<>>
    /\ repins' = <<>>
    /\ result' = NoResult
    /\ message' = NoArgument
    /\ history' = <<>>
    /\ messages' = <<>>
    /\ assessment' = NotAssessed
    /\ options' = NoOptions
    /\ ForgetTextCalls
    /\ UNCHANGED <<tasks, apiKey, preferredModels, model>>

(***************************************************************************)
(* findBestAvailableModel: the upstream answers the probe in flight.  The  *)
(* call returns to its caller: generateResponse's catch block, or the      *)
(* caller of the service.                                                  *)
(***************************************************************************)
ProbeResponse(o) ==
    /\ pc = "probe"
    /\ LET verdict == ProbeVerdict(o)
           candidate == preferredModels[probeIdx]
           answered == Answered(probes, o)
       IN
       CASE verdict = "pin" ->
               /\ model' = candidate
               /\ probeResult' = ProbeReturned(candidate)
               /\ probes' = answered
               /\ probeIdx' = probeIdx
               /\ IF op = "generateResponse"
                  THEN /\ modelToUse' = candidate
                       /\ triedModelFallback' = TRUE
                       /\ repins' = Append(repins,
                              [after |-> Len(requests), pinned |-> candidate])
                       /\ LoopAdvance(requests, candidate, lastError)
                  ELSE /\ pc' = "done"
                       /\ UNCHANGED <<modelToUse, triedModelFallback, attempt,
                                      requests, sleeps, repins, result>>
         [] verdict = "skip" /\ probeIdx < Len(preferredModels) ->
               /\ probeIdx' = probeIdx + 1
               /\ probes' = Append(answered,
                      [model |-> preferredModels[probeIdx + 1], outcome |-> Pending])
               /\ UNCHANGED <<pc, model, probeResult, modelToUse, triedModelFallback,
                              attempt, requests, sleeps, repins, result>>
         [] OTHER ->
               /\ probeResult' = ProbeThrown(IF verdict = "abort" THEN ErrInvalidKey
                                             ELSE ErrNoModels)
               /\ probes' = answered
               /\ probeIdx' = probeIdx
               /\ UNCHANGED <<model, modelToUse, triedModelFallback>>
               /\ IF op = "generateResponse"
                  THEN /\ repins' = Append(repins,
                              [after |-> Len(requests), pinned |-> NotPinned])
                       /\ AfterFallback(requests, modelToUse, lastError)
                  ELSE /\ pc' = "done"
                       /\ UNCHANGED <<attempt, requests, sleeps, repins, result>>
    /\ UNCHANGED <<tasks, apiKey, preferredModels, op, lastError, modelBefore>>
    /\ UNCHANGED <<callVars, textVars>>

(***************************************************************************)
(* generateCrisisResponse: the hardcoded fallback text, one UTF-16 code    *)
(* unit per element (uD83D uDEA8 and the like are the halves of an emoji). *)
(***************************************************************************)
\* variant: a fallback text the validator objects to
FallbackMessage_Hopeless ==
    <<"I", "t", " ", "i", "s", " ", "h", "o", "p", "e", "l", "e", "s", "s", ".">>

FallbackMessage ==
    <<"I", "'", "m", " ", "v", "e", "r", "y", " ", "c", "o", "n", "c", "e", "r", "n",
      "e", "d", " ", "a", "b", "o", "u", "t", " ", "w", "h", "a", "t", " ", "y", "o",
      "u", "'", "r", "e", " ", "s", "h", "a", "r", "i", "n", "g", ".", " ", "Y", "o",
      "u", "r", " ", "s", "a", "f", "e", "t", "y", " ", "i", "s", " ", "t", "h", "e",
      " ", "m", "o", "s", "t", " ", "i", "m", "p", "o", "r", "t", "a", "n", "t", " ",
      "t", "h", "i", "n", "g", " ", "r", "i", "g", "h", "t", " ", "n", "o", "w", ".",
      " ", "P", "l", "e", "a", "s", "e", " ", "r", "e", "a", "c", "h", " ", "o", "u",
      "t", " ", "f", "o", "r", " ", "i", "m", "m", "e", "d", "i", "a", "t", "e", " ",
      "h", "e", "l", "p", ":", "\n", "\n", "uD83D", "uDEA8", " ", "N", "a", "t", "i",
      "o", "n", "a", "l", " ", "S", "u", "i", "c", "i", "d", "e", " ", "P", "r", "e",
      "v", "e", "n", "t", "i", "o", "n", " ", "L", "i", "f", "e", "l", "i", "n", "e",
      ":", " ", "9", "8", "8", "\n", "uD83D", "uDCF1", " ", "C", "r", "i", "s", "i",
      "s", " ", "T", "e", "x", "t", " ", "L", "i", "n", "e", ":", " ", "T", "e", "x",
      "t", " ", "H", "O", "M", "E", " ", "t", "o", " ", "7", "4", "1", "7", "4", "1",
      "\n", "uD83C", "uDFE5", " ", "E", "m", "e", "r", "g", "e", "n", "c", "y", " ",
      "S", "e", "r", "v", "i", "c", "e", "s", ":", " ", "9", "1", "1", "\n", "\n", "Y",
      "o", "u", " ", "d", "o", "n", "'", "t", " ", "h", "a", "v", "e", " ", "t", "o",
      " ", "g", "o", " ", "t", "h", "r", "o", "u", "g", "h", " ", "t", "h", "i", "s",
      " ", "a", "l", "o", "n", "e", ".", " ", "T", "h", "e", "r", "e", " ", "a", "r",
      "e", " ", "p", "e", "o", "p", "l", "e", " ", "w", "h", "o", " ", "w", "a", "n",
      "t", " ", "t", "o", " ", "h", "e", "l", "p", " ", "y", "o", "u", " ", "r", "i",
      "g", "h", "t", " ", "n", "o", "w", ".", " ", "P", "l", "e", "a", "s", "e", " ",
      "r", "e", "a", "c", "h", " ", "o", "u", "t", " ", "t", "o", " ", "o", "n", "e",
      " ", "o", "f", " ", "t", "h", "e", "s", "e", " ", "r", "e", "s", "o", "u", "r",
      "c", "e", "s", " ", "i", "m", "m", "e", "d", "i", "a", "t", "e", "l", "y", ".">>

\* what the call returns once the upstream has answered: the try block's
\* return, or the catch block's fallback
CrisisResult_Rethrow(o) ==
    IF o.kind = "ok" THEN Returned(Trim(o.content))
    ELSE IF o.kind = "error" THEN Thrown(SimpleError(UpstreamMessage(o.status)))
    ELSE Returned(FallbackMessage)

CrisisResult(o) ==
    IF HasMessage(o) /\ o.kind = "ok" THEN Returned(Trim(o.content))
    ELSE Returned(FallbackMessage)

(***************************************************************************)
(* generateCrisisResponse(message): entry, up to the request.  Without a   *)
(* client (this.groq undefined) the request expression throws inside the   *)
(* try block and the catch block returns the fallback.                     *)
(***************************************************************************)
GenerateCrisisResponseEntry(m) ==
    /\ pc \in {"idle", "done"}
    /\ op' = "generateCrisisResponse"
    /\ IF ~isServiceAvailable
       THEN /\ pc' = "done"
            /\ requests' = <<>>
            /\ result' = Returned(FallbackMessage)
       ELSE /\ pc' = "crisis"
            /\ requests' = <<[attempt |-> 1, model |-> model, outcome |-> Pending]>>
            /\ result' = NoResult
    /\ attempt' = 0
    /\ modelToUse' = model
    /\ triedModelFallback' = FALSE
    /\ lastError' = NoCaught
    /\ sleeps' = <<>>
    /\ repins' = <<>>
    /\ probeIdx' = 0
    /\ probes' = <<>>
    /\ modelBefore' = model
    /\ probeResult' = NoProbeResult
    /\ message' = m
    /\ history' = <<>>
    /\ messages' = <<>>
    /\ ForgetTextCalls
    /\ UNCHANGED <<tasks, apiKey, preferredModels, model>>

GenerateCrisisResponseCall(m) ==
    /\ GenerateCrisisResponseEntry(m)
    /\ assessment' = NotAssessed
    /\ options' = NoOptions

(***************************************************************************)
(* generateCrisisResponse: the upstream answers the request.               *)
(***************************************************************************)
CrisisResponse(o) ==
    /\ pc = "crisis"
    /\ pc' = "done"
    /\ requests' = Answered(requests, o)
    /\ result' = CrisisResult(o)
    /\ UNCHANGED <<tasks, apiKey, preferredModels, model, op, attempt, modelToUse,
                   triedModelFallback, lastError, probeIdx, sleeps, repins, probes,
                   modelBefore, probeResult>>
    /\ UNCHANGED <<callVars, textVars>>

(***************************************************************************)
(* The output limit of a completion request: max_tokens.                   *)
(***************************************************************************)
\* variant: the options argument is not looked at
MaxTokensOption_Ignored(opts) ==
    maxTokens

\* options.maxTokens || this.maxTokens
MaxTokensOption(opts) ==
    IF opts.maxTokens # 0 THEN opts.maxTokens ELSE maxTokens

\* max_tokens of the requests of the call that is running or has ended
RequestedMaxTokens ==
    IF op = "generateCrisisResponse" THEN crisisMaxTokens ELSE MaxTokensOption(options)

\* generateResponse(message, conversationHistory, options)
GenerateResponseOptionsCall(m, h, opts) ==
    /\ GenerateResponseEntry(m, h)
    /\ assessment' = NotAssessed
    /\ options' = opts

Next ==
    \/ \E m \in MessageInputs, h \in PlainHistories(SpecMaxHistory) : GenerateResponseCall(m, h)
    \/ \E o \in Outcomes : CompletionResponse(o)
    \/ SleepDone
    \/ FindBestAvailableModelCall
    \/ \E o \in ProbeOutcomes : ProbeResponse(o)
    \/ \E m \in MessageInputs : GenerateCrisisResponseCall(m)
    \/ \E o \in Outcomes : CrisisResponse(o)

Spec == Init /\ [][Next]_vars

(***************************************************************************)
(* The Conversation Orchestrator, respond(userText, history): the crisis   *)
(* check on the latest user turn, then the crisis path or the generation   *)
(* path.                                                                   *)
(***************************************************************************)
CrisisPhrase ==
    <<"I", " ", "w", "a", "n", "t", " ", "t", "o", " ", "e", "n", "d", " ", "i", "t",
      " ", "a", "l", "l">>

RiskIndicators == {<<"e", "n", "d", " ", "i", "t", " ", "a", "l", "l">>}

\* a variant that never triggers
Assess_Never(text) == [assessed |-> TRUE, triggered |-> FALSE, text |-> text]

Assess(text) ==
    [assessed |-> TRUE, triggered |-> \E p \in RiskIndicators : Includes(text, p),
     text |-> text]

Respond(m, h) ==
    /\ assessment' = Assess(m.text)
    /\ options' = NoOptions
    /\ IF assessment'.triggered
       THEN GenerateCrisisResponseEntry(m)
       ELSE GenerateResponseEntry(m, h)

RespondMessages ==
    {[type |-> "string", text |-> <<"a">>], [type |-> "string", text |-> CrisisPhrase],
     [type |-> "string", text |-> <<"e", "n", "d">>]}

RespondOutcomes ==
    {Completion(<<"a">>), Completion(<<" ">>), NoChoices}
        \cup {Failure(s) : s \in {401, 404, 429, 500}}

NextRespond ==
    \/ \E m \in RespondMessages, h \in PlainHistories(SpecMaxHistory) : Respond(m, h)
    \/ \E o \in RespondOutcomes : CompletionResponse(o)
    \/ SleepDone
    \/ \E o \in ProbeOutcomes : ProbeResponse(o)
    \/ \E o \in RespondOutcomes : CrisisResponse(o)

SpecRespond == Init /\ [][NextRespond]_vars

(***************************************************************************)
(* generateResponse over the histories of up to MaxHistory turns, with     *)
(* answers that end the call at the first attempt.                         *)
(***************************************************************************)
HistoryOutcomes == {Completion(<<"a">>), Failure(400)}

NextHistory ==
    \/ \E m \in MessageInputs, h \in Histories(MaxHistory) : GenerateResponseCall(m, h)
    \/ \E o \in HistoryOutcomes : CompletionResponse(o)

SpecHistory == Init /\ [][NextHistory]_vars

(***************************************************************************)
(* validateResponse(response).  It reads no field of the service and       *)
(* assigns none.                                                           *)
(***************************************************************************)
ValidateResponseCall(r) ==
    /\ validated' = r
    /\ validation' = ValidateResponse(r)
    /\ rawText' = NoArgument
    /\ processed' = <<>>
    /\ raised' = NoError
    /\ UNCHANGED <<audioChecked, audioValidation>>
    /\ UNCHANGED <<tasks, apiKey, preferredModels, model, pc, op, attempt, modelToUse,
                   triedModelFallback, lastError, probeIdx, requests, sleeps, repins,
                   probes, modelBefore, probeResult, result, callVars>>

(***************************************************************************)
(* Inputs of validateResponse: values that are not strings, and phrases    *)
(* alone or followed by a filler character up to lengths around the two    *)
(* limits of the method.                                                   *)
(***************************************************************************)
Margin == 2
MaxTextLen == 1600

ValidatePhrases ==
    {<<>>,
     <<"g", "i", "v", "e", " ", "u", "p">>,
     <<"y", "o", "u", " ", "s", "h", "o", "u", "l", "d", " ", "j", "u", "s", "t", " ", "g", "i", "v", "e", " ", "u", "p">>,
     <<"I", " ", "u", "n", "d", "e", "r", "s", "t", "a", "n", "d">>,
     <<"G", "I", "V", "E", " ", "U", "P">>,
     <<"f", "o", "r", "g", "i", "v", "e", " ", "u", "p">>,
     <<"d", "i", "a", "g", "n", "o", "s", "i", "s">>,
     <<"y", "o", "u", " ", "h", "a", "v", "e", " ", " ", "d", "e", "p", "r", "e", "s", "s", "i", "o", "n">>,
     <<"y", "o", "u", " ", "h", "a", "v", "e", " ", "d", "e", "p", "r", "e", "s", "s", "i", "o", "n", "s">>,
     <<"g", "i", "v", "e", " ", "u", "p", " ", "d", "i", "a", "g", "n", "o", "s", "i", "s">>,
     <<"h", "e", "l", "p", "f", "u", "l">>,
     <<"i", "t", "'", "s", " ", "o", "v", "e", "r">>}
LongPhrases ==
    {<<>>,
     <<"I", " ", "u", "n", "d", "e", "r", "s", "t", "a", "n", "d">>,
     <<"g", "i", "v", "e", " ", "u", "p", " ", "d", "i", "a", "g", "n", "o", "s", "i", "s">>}

Str(text) == [type |-> "string", text |-> text]
Pad(text, filler, n) == text \o [i \in 1..(n - Len(text)) |-> filler]
NearLimit(limit) == (limit - Margin)..(limit + Margin)

ValidateInputs ==
    {[type |-> ty, text |-> <<>>] : ty \in {"undefined", "object", "number"}}
        \cup {Str(ph) : ph \in ValidatePhrases}
        \cup {Str(Pad(ph, ".", n)) : ph \in ValidatePhrases,
                                     n \in NearLimit(SupportiveCheckLength)}
        \cup {Str(Pad(ph, "z", SupportiveCheckLength + 1)) : ph \in ValidatePhrases}
        \cup {Str(Pad(ph, ".", n)) : ph \in LongPhrases,
                                     n \in NearLimit(MaxResponseLength) \cup {MaxTextLen}}

NextValidate == \E r \in ValidateInputs : ValidateResponseCall(r)

SpecValidate == Init /\ [][NextValidate]_vars

(***************************************************************************)
(* generateResponse with completions that validateResponse accepts or      *)
(* rejects, and validateResponse on the texts of these completions.        *)
(***************************************************************************)
HarmfulContent == <<" ", "g", "i", "v", "e", " ", "u", "p", " ">>
AdvisoryContents == {HarmfulContent, <<"a">>, <<" ">>}
AdvisoryOutcomes == {Completion(c) : c \in AdvisoryContents} \cup {Failure(400), Failure(500)}
AdvisoryTexts == {Str(Trim(c)) : c \in AdvisoryContents}

NextAdvisory ==
    \/ \E msg \in MessageInputs : GenerateResponseCall(msg, <<>>)
    \/ \E o \in AdvisoryOutcomes : CompletionResponse(o)
    \/ SleepDone
    \/ \E r \in AdvisoryTexts : ValidateResponseCall(r)

SpecAdvisory == Init /\ [][NextAdvisory]_vars

(***************************************************************************)
(* TextToSpeechService._preprocessText on texts held as sequences of       *)
(* characters.                                                             *)
(***************************************************************************)
\* processed.replace(/\s+/g, ' ')
RECURSIVE CollapseFrom(_, _)
CollapseFrom(t, p) ==
    IF p > Len(t) THEN <<>>
    ELSE IF t[p] \in SpaceChars
    THEN (IF p > 1 /\ t[p - 1] \in SpaceChars THEN <<>> ELSE <<" ">>) \o CollapseFrom(t, p + 1)
    ELSE <<t[p]>> \o CollapseFrom(t, p + 1)

abbreviations ==
    <<[abbr |-> <<"D", "r", ".">>, expansion |-> <<"D", "o", "c", "t", "o", "r">>],
      [abbr |-> <<"M", "r", ".">>, expansion |-> <<"M", "i", "s", "t", "e", "r">>],
      [abbr |-> <<"M", "r", "s", ".">>, expansion |-> <<"M", "i", "s", "s", "u", "s">>],
      [abbr |-> <<"M", "s", ".">>, expansion |-> <<"M", "i", "s", "s">>],
      [abbr |-> <<"P", "r", "o", "f", ".">>, expansion |-> <<"P", "r", "o", "f", "e", "s", "s", "o", "r">>],
      [abbr |-> <<"e", "t", "c", ".">>, expansion |-> <<"e", "t", "c", "e", "t", "e", "r", "a">>],
      [abbr |-> <<"v", "s", ".">>, expansion |-> <<"v", "e", "r", "s", "u", "s">>],
      [abbr |-> <<"e", ".", "g", ".">>, expansion |-> <<"f", "o", "r", " ", "e", "x", "a", "m", "p", "l", "e">>],
      [abbr |-> <<"i", ".", "e", ".">>, expansion |-> <<"t", "h", "a", "t", " ", "i", "s">>],
      [abbr |-> <<"A", "I">>, expansion |-> <<"A", " ", "I">>],
      [abbr |-> <<"A", "P", "I">>, expansion |-> <<"A", " ", "P", " ", "I">>],
      [abbr |-> <<"U", "R", "L">>, expansion |-> <<"U", " ", "R", " ", "L">>],
      [abbr |-> <<"H", "T", "T", "P">>, expansion |-> <<"H", " ", "T", " ", "T", " ", "P">>],
      [abbr |-> <<"H", "T", "T", "P", "S">>, expansion |-> <<"H", " ", "T", " ", "T", " ", "P", " ", "S">>]>>

\* the pattern element that stands for an unescaped dot
AnyChar == "ANY"

\* the elements of new RegExp(`\\b${abbr.replace('.', '\\.')}\\b`, 'gi') between
\* its two \b: replace escapes the first dot of abbr only
PatternOf(abbr) ==
    [i \in 1..Len(abbr) |->
        IF abbr[i] = "." /\ (\E j \in 1..(i - 1) : abbr[j] = ".") THEN AnyChar
        ELSE ToLower(abbr[i])]

ElementMatches(e, c) == IF e = AnyChar THEN c # "\n" ELSE ToLower(c) = e

PatternAt(t, pat, p) ==
    /\ p + Len(pat) - 1 <= Len(t)
    /\ \A j \in 1..Len(pat) : ElementMatches(pat[j], t[p + j - 1])
    /\ Boundary(t, p)
    /\ Boundary(t, p + Len(pat))

\* t.replace(regex, expansion) from position p on, for a global regex
RECURSIVE ReplaceFrom(_, _, _, _)
ReplaceFrom(t, pat, expansion, p) ==
    IF p > Len(t) THEN <<>>
    ELSE IF PatternAt(t, pat, p)
    THEN expansion \o ReplaceFrom(t, pat, expansion, p + Len(pat))
    ELSE <<t[p]>> \o ReplaceFrom(t, pat, expansion, p + 1)

\* the loop over Object.entries(abbreviations), from entry i on
RECURSIVE ExpandFrom(_, _)
ExpandFrom(t, i) ==
    IF i > Len(abbreviations) THEN t
    ELSE ExpandFrom(ReplaceFrom(t, PatternOf(abbreviations[i].abbr),
                                abbreviations[i].expansion, 1), i + 1)

numbers ==
    <<<<"z", "e", "r", "o">>,
      <<"o", "n", "e">>,
      <<"t", "w", "o">>,
      <<"t", "h", "r", "e", "e">>,
      <<"f", "o", "u", "r">>,
      <<"f", "i", "v", "e">>,
      <<"s", "i", "x">>,
      <<"s", "e", "v", "e", "n">>,
      <<"e", "i", "g", "h", "t">>,
      <<"n", "i", "n", "e">>,
      <<"t", "e", "n">>,
      <<"e", "l", "e", "v", "e", "n">>,
      <<"t", "w", "e", "l", "v", "e">>,
      <<"t", "h", "i", "r", "t", "e", "e", "n">>,
      <<"f", "o", "u", "r", "t", "e", "e", "n">>,
      <<"f", "i", "f", "t", "e", "e", "n">>,
      <<"s", "i", "x", "t", "e", "e", "n">>,
      <<"s", "e", "v", "e", "n", "t", "e", "e", "n">>,
      <<"e", "i", "g", "h", "t", "e", "e", "n">>,
      <<"n", "i", "n", "e", "t", "e", "e", "n">>,
      <<"t", "w", "e", "n", "t", "y">>>>

DigitValue(c) == CHOOSE v \in 0..9 : DigitChars[v + 1] = c

RECURSIVE ParseInt(_)
ParseInt(ds) ==
    IF ds = <<>> THEN 0
    ELSE 10 * ParseInt(SubSeq(ds, 1, Len(ds) - 1)) + DigitValue(ds[Len(ds)])

\* the last position of the digits that begin at p
DigitRunEnd(t, p) ==
    CHOOSE q \in p..Len(t) :
        /\ \A j \in p..q : t[j] \in Digits
        /\ q = Len(t) \/ t[q + 1] \notin Digits

\* /\b\d+\b/ matches at p
NumberAt(t, p) ==
    /\ t[p] \in Digits
    /\ Boundary(t, p)
    /\ Boundary(t, DigitRunEnd(t, p) + 1)

\* variant: twenty is left as digits
NumberWord_BelowTwenty(match) ==
    IF ParseInt(match) >= 0 /\ ParseInt(match) < Len(numbers) - 1
    THEN numbers[ParseInt(match) + 1]
    ELSE match

NumberWord(match) ==
    IF ParseInt(match) >= 0 /\ ParseInt(match) <= Len(numbers) - 1
    THEN numbers[ParseInt(match) + 1]
    ELSE match

RECURSIVE SpellNumbersFrom(_, _)
SpellNumbersFrom(t, p) ==
    IF p > Len(t) THEN <<>>
    ELSE IF NumberAt(t, p)
    THEN NumberWord(SubSeq(t, p, DigitRunEnd(t, p)))
             \o SpellNumbersFrom(t, DigitRunEnd(t, p) + 1)
    ELSE <<t[p]>> \o SpellNumbersFrom(t, p + 1)

\* /[.!?]$/.test(processed)
EndsSentence(t) == Len(t) > 0 /\ t[Len(t)] \in {".", "!", "?"}

PreprocessText(text) ==
    LET spaced == Trim(CollapseFrom(text, 1))
        expanded == ExpandFrom(spaced, 1)
        spelled == SpellNumbersFrom(expanded, 1)
    IN  IF EndsSentence(spelled) THEN spelled ELSE spelled \o <<".">>

\* text.replace on an argument that is not a string: undefined and null have
\* no properties, a number or a plain object has no replace method
RaisesTypeError(r) ==
    r.type # "string"

ErrReplace == SimpleError("TypeError: processed.replace is not a function")

PreprocessTextCall(r) ==
    /\ rawText' = r
    /\ processed' = (IF RaisesTypeError(r) THEN <<>> ELSE PreprocessText(r.text))
    /\ raised' = (IF RaisesTypeError(r) THEN ErrReplace ELSE NoError)
    /\ UNCHANGED <<audioChecked, audioValidation>>
    /\ validated' = NoArgument
    /\ validation' = NoValidation
    /\ UNCHANGED <<tasks, apiKey, preferredModels, model, pc, op, attempt, modelToUse,
                   triedModelFallback, lastError, probeIdx, requests, sleeps, repins,
                   probes, modelBefore, probeResult, result, callVars>>

(***************************************************************************)
(* Inputs of _preprocessText: a beginning followed by an ending, and the   *)
(* numbers up to MaxNumber.                                                *)
(***************************************************************************)
MaxNumber == 21

TextHeads ==
    {<<>>,
     <<"A", "I">>,
     <<"A", "P", "I">>,
     <<"D", "r">>,
     <<"e">>,
     <<"i">>,
     <<"x", " ">>,
     <<"5">>}
TextTails ==
    {<<>>,
     <<".", "e", "x">>,
     <<".">>,
     <<".", "e", ".", "g">>,
     <<".", "g", ".", "5">>,
     <<" ", "5">>,
     <<"!">>,
     <<" ", " ", "M", "r", ".", "s">>}

NormalizeInputs ==
    {Str(h \o t) : h \in TextHeads, t \in TextTails}
        \cup {Str(Decimal(n)) : n \in 0..MaxNumber}
        \cup {[type |-> ty, text |-> <<>>] : ty \in {"undefined", "object", "number"}}

NextNormalize == \E r \in NormalizeInputs : PreprocessTextCall(r)

SpecNormalize == Init /\ [][NextNormalize]_vars

(***************************************************************************)
(* All the methods of the service, one call at a time, and validateResponse *)
(* at any moment.                                                          *)
(***************************************************************************)
FrameOutcomes == {Completion(<<"a">>), NoChoices} \cup {Failure(s) : s \in {401, 404, 500}}

NextFrame ==
    \/ \E m \in MessageInputs : GenerateResponseCall(m, <<>>)
    \/ \E o \in FrameOutcomes : CompletionResponse(o)
    \/ SleepDone
    \/ FindBestAvailableModelCall
    \/ \E o \in ProbeOutcomes : ProbeResponse(o)
    \/ \E m \in MessageInputs : GenerateCrisisResponseCall(m)
    \/ \E o \in FrameOutcomes : CrisisResponse(o)
    \/ \E r \in AdvisoryTexts : ValidateResponseCall(r)

SpecFrame == Init /\ [][NextFrame]_vars

(***************************************************************************)
(* generateResponse when every upstream request is answered and every      *)
(* timer of _sleep fires.                                                  *)
(***************************************************************************)
LiveOutcomes ==
    {Completion(<<"a">>), Completion(<<" ">>), NoChoices} \cup {Failure(s) : s \in Statuses}

CompletionAnswered == \E o \in LiveOutcomes : CompletionResponse(o)
ProbeAnswered == \E o \in ProbeOutcomes : ProbeResponse(o)

NextLive ==
    \/ \E m \in MessageInputs : GenerateResponseCall(m, <<>>)
    \/ CompletionAnswered
    \/ SleepDone
    \/ ProbeAnswered

SpecLive ==
    /\ Init
    /\ [][NextLive]_vars
    /\ WF_vars(CompletionAnswered)
    /\ WF_vars(SleepDone)
    /\ WF_vars(ProbeAnswered)

(***************************************************************************)
(* Concurrent calls on the one service object.  Every task runs one public *)
(* method; its locals (attempt, modelToUse, triedModelFallback, lastError, *)
(* the probe loop's index) are the task's own, this.model is shared.  A    *)
(* task is suspended only at an await; the code between two awaits runs    *)
(* without interruption (one JavaScript thread).                           *)
(***************************************************************************)
TestMessage ==
    [type |-> "string",
     text |-> <<"H", "e", "l", "l", "o", ",", " ", "t", "h", "i", "s", " ", "i", "s", " ",
                "a", " ", "t", "e", "s", "t", " ", "m", "e", "s", "s", "a", "g", "e", ".">>]

\* variant: the request names this.model as it is when the request is made
RequestModel_Shared(local, shared) ==
    shared

\* the model a completion request of generateResponse names: local modelToUse
RequestModel(local, shared) ==
    local

\* a method ends and what it held is gone; testConnection turns the end of
\* its generateResponse into its own result object
Finish(t, how) ==
    [IdleTask EXCEPT
              !.op = t.op,
              !.outer = t.outer,
              !.pc = "done",
              !.ended = IF t.outer = "testConnection"
                        THEN (IF how = "return" THEN "success" ELSE "failure")
                        ELSE how]

\* generateResponse up to its first request, this.model being shared
EnteredGenerate(m, outer, shared) ==
    LET t == [IdleTask EXCEPT !.op = "generateResponse", !.outer = outer,
                              !.startModel = shared, !.modelToUse = shared]
    IN IF ~isServiceAvailable \/ ~ValidMessage(m)
       THEN Finish(t, "throw")
       ELSE [t EXCEPT !.pc = "completion", !.attempt = 1,
                      !.used = <<[model |-> RequestModel(shared, shared),
                                  afterPin |-> FALSE]>>]

\* the for loop's increment and test, then the next request or the throw
TaskLoopAdvance(t, shared) ==
    IF t.attempt + 1 <= maxRetries
    THEN [t EXCEPT !.pc = "completion", !.attempt = t.attempt + 1,
                   !.used = Append(t.used,
                       [model |-> RequestModel(t.modelToUse, shared),
                        afterPin |-> t.triedModelFallback])]
    ELSE Finish(t, "throw")

\* the catch block from the status tests on
TaskAfterFallback(t, shared) ==
    LET step == RetryPolicy(t.lastError.status, t.attempt) IN
    CASE step.do = "sleep" -> [t EXCEPT !.pc = "sleep"]
      [] step.do = "throw" -> Finish(t, "throw")
      [] OTHER -> TaskLoopAdvance(t, shared)

TaskStep(c, t) ==
    /\ tasks' = [tasks EXCEPT ![c] = t]
    /\ UNCHANGED <<apiKey, preferredModels, pc, op, attempt, modelToUse,
                   triedModelFallback, lastError, probeIdx, requests, sleeps, repins,
                   probes, modelBefore, probeResult, result, callVars, textVars>>

Free(c) == tasks[c].pc \in {"idle", "done"}

TaskGenerateResponse(c, m) ==
    /\ Free(c)
    /\ TaskStep(c, EnteredGenerate(m, "none", model))
    /\ UNCHANGED model

TaskCompletionResponse(c, o) ==
    /\ tasks[c].pc = "completion"
    /\ LET t == tasks[c] IN
       IF IsSuccess(o)
       THEN TaskStep(c, Finish(t, "return"))
       ELSE LET e == CaughtError(o)
                caught == [t EXCEPT !.lastError = e]
            IN IF WantsModelFallback(e.status, t.triedModelFallback)
               THEN TaskStep(c, [caught EXCEPT !.pc = "probe", !.probeIdx = 1])
               ELSE TaskStep(c, TaskAfterFallback(caught, model))
    /\ UNCHANGED model

TaskSleepDone(c) ==
    /\ tasks[c].pc = "sleep"
    /\ TaskStep(c, TaskLoopAdvance(tasks[c], model))
    /\ UNCHANGED model

TaskFindBestAvailableModel(c) ==
    /\ Free(c)
    /\ LET t == [IdleTask EXCEPT !.op = "findBestAvailableModel"] IN
       IF ~isServiceAvailable
       THEN TaskStep(c, Finish(t, "throw"))
       ELSE TaskStep(c, [t EXCEPT !.pc = "probe", !.probeIdx = 1])
    /\ UNCHANGED model

TaskTestConnection(c) ==
    /\ Free(c)
    /\ LET t == [IdleTask EXCEPT !.op = "findBestAvailableModel",
                                 !.outer = "testConnection"]
       IN IF ~isServiceAvailable
          THEN TaskStep(c, Finish(t, "throw"))
          ELSE TaskStep(c, [t EXCEPT !.pc = "probe", !.probeIdx = 1])
    /\ UNCHANGED model

\* the probe's answer resumes findBestAvailableModel, which returns to
\* generateResponse's catch block, to testConnection or to the caller
TaskProbeResponse(c, o) ==
    /\ tasks[c].pc = "probe"
    /\ LET t == tasks[c]
           verdict == ProbeVerdict(o)
           candidate == preferredModels[t.probeIdx]
       IN
       CASE verdict = "pin" ->
               /\ model' = candidate
               /\ IF t.op = "generateResponse"
                  THEN TaskStep(c, TaskLoopAdvance(
                           [t EXCEPT !.modelToUse = candidate,
                                     !.triedModelFallback = TRUE,
                                     !.pinned = candidate], candidate))
                  ELSE IF t.outer = "testConnection"
                  THEN TaskStep(c, EnteredGenerate(TestMessage, "testConnection", candidate))
                  ELSE TaskStep(c, Finish(t, "return"))
         [] verdict = "skip" /\ t.probeIdx < Len(preferredModels) ->
               /\ TaskStep(c, [t EXCEPT !.probeIdx = t.probeIdx + 1])
               /\ UNCHANGED model
         [] OTHER ->
               /\ UNCHANGED model
               /\ IF t.op = "generateResponse"
                  THEN TaskStep(c, TaskAfterFallback(t, model))
                  ELSE IF t.outer = "testConnection"
                  THEN TaskStep(c, EnteredGenerate(TestMessage, "testConnection", model))
                  ELSE TaskStep(c, Finish(t, "throw"))

TaskGenerateCrisisResponse(c, m) ==
    /\ Free(c)
    /\ LET t == [IdleTask EXCEPT !.op = "generateCrisisResponse", !.startModel = model] IN
       IF ~isServiceAvailable
       THEN TaskStep(c, Finish(t, "return"))
       ELSE TaskStep(c, [t EXCEPT !.pc = "crisis",
                                  !.used = <<[model |-> model, afterPin |-> FALSE]>>])
    /\ UNCHANGED model

TaskCrisisResponse(c, o) ==
    /\ tasks[c].pc = "crisis"
    /\ TaskStep(c, Finish(tasks[c], "return"))
    /\ UNCHANGED model

TaskOutcomes == {Completion(<<"a">>)} \cup {Failure(s) : s \in {401, 404, 500}}
TaskProbeOutcomes == {Completion(<<"a">>)} \cup {Failure(s) : s \in {401, 404}}

\* the upstream answers the request of task c, or the sleep of task c ends
TaskResumed(c) ==
    \/ \E o \in TaskOutcomes : TaskCompletionResponse(c, o)
    \/ TaskSleepDone(c)
    \/ \E o \in TaskProbeOutcomes : TaskProbeResponse(c, o)
    \/ \E o \in TaskOutcomes : TaskCrisisResponse(c, o)

NextTasks ==
    \/ \E c \in Tasks, m \in MessageInputs : TaskGenerateResponse(c, m)
    \/ \E c \in Tasks : TaskFindBestAvailableModel(c)
    \/ \E c \in Tasks : TaskTestConnection(c)
    \/ \E c \in Tasks, m \in MessageInputs : TaskGenerateCrisisResponse(c, m)
    \/ \E c \in Tasks : TaskResumed(c)

\* every request is answered and every sleep ends, for each task
SpecTasks ==
    /\ Init
    /\ [][NextTasks]_vars
    /\ \A c \in Tasks : WF_vars(TaskResumed(c))



(***************************************************************************)
(* The budgets of the two generation paths: generateResponse with the      *)
(* options a caller may pass, and generateCrisisResponse.                  *)
(***************************************************************************)
OptionInputs == {NoOptions} \cup {[maxTokens |-> n] : n \in {100, 150, 500}}
BudgetOutcomes ==
    {Completion(<<"a">>), Completion(<<" ">>), NoChoices}
        \cup {Failure(s) : s \in {401, 404, 429, 500}}

NextBudget ==
    \/ \E m \in MessageInputs, opts \in OptionInputs : GenerateResponseOptionsCall(m, <<>>, opts)
    \/ \E o \in BudgetOutcomes : CompletionResponse(o)
    \/ SleepDone
    \/ \E o \in ProbeOutcomes : ProbeResponse(o)
    \/ \E m \in MessageInputs : GenerateCrisisResponseCall(m)
    \/ \E o \in BudgetOutcomes : CrisisResponse(o)

SpecBudget == Init /\ [][NextBudget]_vars

(***************************************************************************)
(* The reply of generateCrisisResponse handed to validateResponse.         *)
(***************************************************************************)
ValidateReturnedCall ==
    /\ op = "generateCrisisResponse"
    /\ pc = "done"
    /\ result.kind = "return"
    /\ ValidateResponseCall([type |-> "string", text |-> result.value])

NextFallback ==
    \/ \E m \in MessageInputs : GenerateCrisisResponseCall(m)
    \/ \E o \in Outcomes : CrisisResponse(o)
    \/ ValidateReturnedCall

SpecFallback == Init /\ [][NextFallback]_vars

(***************************************************************************)
(* SpeechToTextService.validateAudioFile (src/services/                    *)
(* speechToTextService.js).  A buffer argument is null, undefined or a     *)
(* Buffer of some length; an error of the result is its text with the      *)
(* content type it names.                                                  *)
(***************************************************************************)
maxSize == 25 * 1024 * 1024
supportedTypes == {"audio/wav", "audio/mpeg", "audio/mp3", "audio/webm", "audio/ogg"}

AudioError(msg, ct) == [msg |-> msg, contentType |-> ct]
ErrAudioEmpty == AudioError("Audio file is empty or invalid", "")
ErrAudioTooLarge == AudioError("Audio file too large. Maximum size is 25MB", "")
ErrAudioFormat(ct) == AudioError("Unsupported audio format", ct)

\* !audioBuffer
Missing(b) == b.kind \in {"null", "undefined"}

ValidateAudioFile(b, ct) ==
    IF Missing(b)
    THEN \* audioBuffer.length of the second test raises a TypeError
         [kind |-> "throw", isValid |-> FALSE, errors |-> <<>>]
    ELSE LET errors ==
                 (IF b.length = 0 THEN <<ErrAudioEmpty>> ELSE <<>>)
                     \o (IF b.length > maxSize THEN <<ErrAudioTooLarge>> ELSE <<>>)
                     \o (IF ct \notin supportedTypes THEN <<ErrAudioFormat(ct)>> ELSE <<>>)
         IN  [kind |-> "return", isValid |-> errors = <<>>, errors |-> errors]

ValidateAudioFileCall(b, ct) ==
    /\ audioChecked' = [buffer |-> b, contentType |-> ct]
    /\ audioValidation' = ValidateAudioFile(b, ct)
    /\ UNCHANGED <<tasks, apiKey, preferredModels, model, pc, op, attempt, modelToUse,
                   triedModelFallback, lastError, probeIdx, requests, sleeps, repins,
                   probes, modelBefore, probeResult, result, callVars>>
    /\ UNCHANGED <<validated, validation, rawText, processed, raised>>

AudioSizeMargin == 1
AudioBuffers ==
    {[kind |-> k, length |-> 0] : k \in {"null", "undefined"}}
        \cup {[kind |-> "buffer", length |-> n] :
                 n \in {0, 1} \cup ((maxSize - AudioSizeMargin)..(maxSize + AudioSizeMargin))}
ContentTypes == supportedTypes \cup {"audio/flac", "AUDIO/WAV", "undefined"}

NextAudio == \E b \in AudioBuffers, ct \in ContentTypes : ValidateAudioFileCall(b, ct)

SpecAudio == Init /\ [][NextAudio]_vars

(***************************************************************************)
(* Vocabulary of the properties: the error classification of an upstream   *)
(* answer, read off the answer itself.                                     *)
(***************************************************************************)
ClassOf(o) ==
    IF o.kind = "pending" THEN "Pending"
    ELSE IF o.kind = "error"
    THEN CASE o.status = 401 -> "Unauthorized"
           [] o.status = 400 -> "BadRequest"
           [] o.status = 404 -> "NotFound"
           [] o.status = 429 -> "RateLimited"
           [] o.status >= 500 -> "ServerError"
           [] OTHER -> "Unknown"
    ELSE IF o.kind = "ok" /\ \E i \in 1..Len(o.content) : o.content[i] \notin Whitespace
    THEN "Success"
    ELSE "Unknown"

RetryableClasses == {"RateLimited", "ServerError", "Unknown"}

RequestClass(i) == ClassOf(requests[i].outcome)

GenRunning == op = "generateResponse"

GenDone == op = "generateResponse" /\ pc = "done"

\* a probe's answer carries a first choice
ProbeWellFormed(o) == o.kind \in {"ok", "nullContent", "noMessage"}

\* C1: when attempts 1..k all fail with RateLimited and attempt k+1 succeeds
\* (k < maxRetries), generateResponse returns that attempt's trimmed text, and
\* it has slept once after each failed attempt, each time longer than before.
C1_RateLimitedThenSuccess ==
    (/\ GenRunning
     /\ Len(requests) >= 1
     /\ \A i \in 1..(Len(requests) - 1) : RequestClass(i) = "RateLimited"
     /\ RequestClass(Len(requests)) = "Success")
    => /\ pc = "done"
       /\ result = Returned(Trim(requests[Len(requests)].outcome.content))
       /\ Len(result.value) > 0
       /\ Len(sleeps) = Len(requests) - 1
       /\ \A k \in 1..Len(sleeps) : sleeps[k].after = k
       /\ \A k \in 1..(Len(sleeps) - 1) : sleeps[k].ms < sleeps[k + 1].ms

C1_Witness ==
    /\ GenDone
    /\ Len(requests) = maxRetries
    /\ \A i \in 1..(maxRetries - 1) : RequestClass(i) = "RateLimited"
    /\ RequestClass(maxRetries) = "Success"
    /\ result.kind = "return"
    /\ Len(sleeps) = maxRetries - 1

\* C2: an attempt answered with status 401 is the call's last: the call has
\* ended with the invalid-credential error, no request follows the attempt
\* and no sleep follows it; a 401 on the first attempt leaves one request and
\* no sleep.
C2_UnauthorizedEndsCall ==
    GenRunning =>
        \A i \in 1..Len(requests) :
            RequestClass(i) = "Unauthorized"
            => /\ i = Len(requests)
               /\ pc = "done"
               /\ result = Thrown(ErrInvalidKey)
               /\ \A k \in 1..Len(sleeps) : sleeps[k].after < i
               /\ (i = 1 => sleeps = <<>>)

C2_Witness ==
    /\ GenDone
    /\ Len(requests) = 2
    /\ RequestClass(1) = "RateLimited"
    /\ RequestClass(2) = "Unauthorized"
    /\ Len(sleeps) = 1
    /\ result = Thrown(ErrInvalidKey)

\* C3: an attempt answered with status 400 is the call's last, on whichever
\* attempt it happens: the call has ended with an error, no request follows
\* the attempt and no sleep follows it.
C3_BadRequestEndsCall ==
    GenRunning =>
        \A i \in 1..Len(requests) :
            RequestClass(i) = "BadRequest"
            => /\ i = Len(requests)
               /\ pc = "done"
               /\ result = Thrown(ErrInvalidRequest)
               /\ \A k \in 1..Len(sleeps) : sleeps[k].after < i

C3_Witness ==
    /\ GenDone
    /\ Len(requests) = maxRetries
    /\ RequestClass(1) = "ServerError"
    /\ RequestClass(2) = "Unknown"
    /\ RequestClass(maxRetries) = "BadRequest"
    /\ Len(sleeps) = 2
    /\ result = Thrown(ErrInvalidRequest)

FirstNotFound(i) ==
    /\ RequestClass(i) = "NotFound"
    /\ \A j \in 1..(i - 1) : RequestClass(j) # "NotFound"

\* C4: after the call's first NotFound, on attempt 1..maxRetries, and a re-pin
\* that succeeded, generateResponse has issued one more completion attempt, and
\* that attempt uses the newly pinned model.
C4_RepinThenRetry ==
    GenRunning =>
        \A k \in 1..Len(repins) :
            (repins[k].pinned # NotPinned /\ FirstNotFound(repins[k].after))
            => /\ Len(requests) > repins[k].after
               /\ requests[repins[k].after + 1].model = repins[k].pinned

\* C5: after a NotFound whose re-pin failed, generateResponse has ended with
\* an error and has issued no further completion attempt.
C5_RepinFailurePropagates ==
    GenRunning =>
        \A k \in 1..Len(repins) :
            repins[k].pinned = NotPinned
            => /\ pc = "done"
               /\ result.kind = "throw"
               /\ Len(requests) = repins[k].after

\* C6: one generateResponse call issues at most maxRetries completion
\* requests and sleeps at most maxRetries - 1 times; every sleep comes after
\* an attempt that is not the last allowed one, at most one sleep follows an
\* attempt, and once the sleep is over the next attempt is issued.
C6_BoundedAttempts ==
    GenRunning =>
        /\ Len(requests) <= maxRetries
        /\ Len(sleeps) <= maxRetries - 1
        /\ \A k \in 1..Len(sleeps) :
              /\ sleeps[k].after \in 1..(maxRetries - 1)
              /\ (k < Len(sleeps) => sleeps[k].after < sleeps[k + 1].after)
              /\ \/ Len(requests) > sleeps[k].after
                 \/ (k = Len(sleeps) /\ pc = "sleep")

C6_Witness ==
    /\ GenDone
    /\ Len(requests) = maxRetries
    /\ Len(sleeps) = maxRetries - 1
    /\ RequestClass(maxRetries) = "ServerError"
    /\ result.kind = "throw"

AllRetryableFailures ==
    /\ GenDone
    /\ Len(requests) = maxRetries
    /\ \A i \in 1..maxRetries : RequestClass(i) \in RetryableClasses

LastCaughtMessage == CaughtError(requests[Len(requests)].outcome).message

\* C8 as stated: when all maxRetries attempts fail with RateLimited,
\* ServerError or Unknown, generateResponse throws the composite error that
\* carries the attempt count and the last underlying error's message.
C8_ExhaustedComposite ==
    AllRetryableFailures
    => /\ result.kind = "throw"
       /\ result.error.attempts = maxRetries
       /\ result.error.cause = LastCaughtMessage

\* C8 as amended: when all maxRetries attempts fail with RateLimited,
\* ServerError or Unknown, generateResponse throws the composite error with
\* the attempt count and the last underlying error's message if the last
\* attempt failed with ServerError or Unknown, and the fixed rate-limit error
\* if the last attempt failed with RateLimited.
C8_ExhaustedCompositeUnlessRateLimited ==
    AllRetryableFailures
    => /\ result.kind = "throw"
       /\ IF RequestClass(maxRetries) = "RateLimited"
          THEN result.error = ErrRateLimit
          ELSE /\ result.error.attempts = maxRetries
               /\ result.error.cause = LastCaughtMessage
               /\ result.error.cause # ""

C8_Witness ==
    /\ AllRetryableFailures
    /\ RequestClass(1) = "RateLimited"
    /\ RequestClass(2) = "Unknown"
    /\ RequestClass(maxRetries) = "ServerError"
    /\ result.error.attempts = maxRetries
    /\ result.error.cause = UpstreamMessage(503)

\* C9: findBestAvailableModel probes the candidates in their configured
\* order, each at most once; it returns and pins the first candidate whose
\* probe is answered with a completion that has a first choice, and probes no
\* candidate after that one.
C9_ProbeInOrderPinFirst ==
    /\ Len(probes) <= Len(preferredModels)
    /\ \A i \in 1..Len(probes) : probes[i].model = preferredModels[i]
    /\ \A i \in 1..(Len(probes) - 1) : ~ProbeWellFormed(probes[i].outcome)
    /\ (Len(probes) > 0 /\ ProbeWellFormed(probes[Len(probes)].outcome))
       => probeResult.kind = "return"
    /\ probeResult.kind = "return"
       => /\ ProbeWellFormed(probes[Len(probes)].outcome)
          /\ probeResult.value = probes[Len(probes)].model
          /\ model = probes[Len(probes)].model

C9_Witness ==
    /\ op = "findBestAvailableModel"
    /\ pc = "done"
    /\ Len(probes) = 2
    /\ ClassOf(probes[1].outcome) = "NotFound"
    /\ probes[1].model = ConfiguredModels[1]
    /\ probeResult = ProbeReturned(ConfiguredModels[2])
    /\ model = ConfiguredModels[2]

\* C10: a probe answered with status 401 is the last probe of its
\* findBestAvailableModel call: the call has failed with the
\* invalid-credential error and the current model is the one from before the
\* call.
C10_ProbeUnauthorizedAborts ==
    \A i \in 1..Len(probes) :
        ClassOf(probes[i].outcome) = "Unauthorized"
        => /\ i = Len(probes)
           /\ probeResult = ProbeThrown(ErrInvalidKey)
           /\ model = modelBefore

C10_Witness ==
    /\ op = "findBestAvailableModel"
    /\ pc = "done"
    /\ modelBefore = ConfiguredModels[2]
    /\ model = ConfiguredModels[2]
    /\ Len(probes) = 1
    /\ ClassOf(probes[1].outcome) = "Unauthorized"
    /\ probeResult = ProbeThrown(ErrInvalidKey)

\* a probe's answer that rejects the candidate without ending the probe
ProbeRejected(o) ==
    /\ ClassOf(o) \notin {"Pending", "Unauthorized"}
    /\ ~ProbeWellFormed(o)

\* C11: when the probe of every candidate is rejected (NotFound, another
\* error that is not Unauthorized, or a completion without choices),
\* findBestAvailableModel has probed every candidate exactly once, in order,
\* has failed with the no-model-available error and has left the current
\* model as it was; and it fails with that error in no other case.
C11_AllRejectedNoModel ==
    /\ (/\ Len(probes) = Len(preferredModels)
        /\ \A i \in 1..Len(probes) : ProbeRejected(probes[i].outcome))
       => /\ probeResult = ProbeThrown(ErrNoModels)
          /\ \A i \in 1..Len(probes) : probes[i].model = preferredModels[i]
          /\ model = modelBefore
    /\ probeResult = ProbeThrown(ErrNoModels)
       => /\ Len(probes) = Len(preferredModels)
          /\ \A i \in 1..Len(probes) : ProbeRejected(probes[i].outcome)

C11_Witness ==
    /\ op = "findBestAvailableModel"
    /\ pc = "done"
    /\ modelBefore = ConfiguredModels[2]
    /\ model = ConfiguredModels[2]
    /\ Len(probes) = 2
    /\ ClassOf(probes[1].outcome) = "ServerError"
    /\ probes[2].outcome = NoChoices
    /\ probeResult = ProbeThrown(ErrNoModels)

(***************************************************************************)
(* The crisis resources a crisis reply has to name.                        *)
(***************************************************************************)
CrisisPhoneLine == <<"9", "8", "8">>
CrisisTextLine ==
    <<"H", "O", "M", "E", " ", "t", "o", " ", "7", "4", "1", "7", "4", "1">>

NamesCrisisResources(text) ==
    Includes(text, CrisisPhoneLine) /\ Includes(text, CrisisTextLine)

CrisisDone == op = "generateCrisisResponse" /\ pc = "done"

\* the request of the crisis call was answered with a completion that has a
\* message with a text
CrisisAnsweredWithText ==
    /\ Len(requests) = 1
    /\ requests[1].outcome.kind = "ok"

\* C12: generateCrisisResponse never throws; whenever its request fails (an
\* upstream error of any status, a completion without a message or without a
\* text) or the service has no client, so that no request is made at all, it
\* returns the hardcoded fallback message, and that message names the phone
\* line 988 and the text line HOME to 741741.
C12_CrisisNeverFails ==
    /\ NamesCrisisResources(FallbackMessage)
    /\ CrisisDone
       => /\ result.kind = "return"
          /\ ~CrisisAnsweredWithText => result.value = FallbackMessage
          /\ ~apiKey => requests = <<>>
          /\ Len(requests) <= 1
          /\ sleeps = <<>>

C12_Witness ==
    /\ CrisisDone
    /\ apiKey
    /\ Len(requests) = 1
    /\ ClassOf(requests[1].outcome) = "ServerError"
    /\ result = Returned(FallbackMessage)
    /\ NamesCrisisResources(result.value)

\* C13: every response generateCrisisResponse returns names the crisis phone
\* line and the crisis text line, whatever the upstream answered.
C13_CrisisReplyNamesResources ==
    CrisisDone => (result.kind = "return" /\ NamesCrisisResources(result.value))

\* C14: a turn whose text matches a crisis risk indicator is routed to the
\* crisis path and never to the generation pipeline: the call that runs is
\* generateCrisisResponse, with one request at most and no assembled message
\* list, backoff sleep, re-pin or probe; any other turn runs generateResponse.
C14_CrisisBypassesGeneration ==
    assessment.assessed =>
        IF \E p \in RiskIndicators : Includes(assessment.text, p)
        THEN /\ op = "generateCrisisResponse"
             /\ Len(requests) <= 1
             /\ messages = <<>>
             /\ sleeps = <<>>
             /\ repins = <<>>
             /\ probes = <<>>
        ELSE op = "generateResponse"

C14_Witness ==
    /\ assessment.assessed
    /\ assessment.text = CrisisPhrase
    /\ CrisisDone
    /\ Len(requests) = 1
    /\ ClassOf(requests[1].outcome) = "RateLimited"
    /\ result = Returned(FallbackMessage)

KeptTurns == IF Len(history) < HistoryLimit THEN Len(history) ELSE HistoryLimit

\* the message list is the system turn, the KeptTurns most recent turns of
\* the history in their order, and the new user turn
MessagesAssembled ==
    /\ Len(messages) = KeptTurns + 2
    /\ messages[1] = SystemTurn
    /\ \A j \in 1..KeptTurns : messages[1 + j] = history[Len(history) - KeptTurns + j]
    /\ messages[Len(messages)] = [role |-> "user", content |-> message.text]

SystemTurnsOf(seq) == {j \in 1..Len(seq) : seq[j].role = "system"}

\* C15 as stated: for every history, the message list of generateResponse is
\* the system turn, the min(n, 10) most recent history turns in their order
\* and the new user turn, and exactly one of its turns has the system role.
C15_MessageList ==
    (GenRunning /\ messages # <<>>)
    => /\ MessagesAssembled
       /\ Cardinality(SystemTurnsOf(messages)) = 1

\* C15 as amended: for every history, the message list of generateResponse is
\* the system turn, the min(n, 10) most recent history turns in their order
\* and the new user turn; the turns with the system role are the first one
\* and the kept history turns that the caller gave that role, so exactly one
\* when the caller gave it to none of them.
C15_MessageListCallerRoles ==
    (GenRunning /\ messages # <<>>)
    => /\ MessagesAssembled
       /\ SystemTurnsOf(messages) =
              {1} \cup {1 + j : j \in {i \in 1..KeptTurns :
                                  history[Len(history) - KeptTurns + i].role = "system"}}
       /\ SystemTurnsOf(history) = {} => Cardinality(SystemTurnsOf(messages)) = 1

C15_Witness ==
    /\ GenDone
    /\ result.kind = "return"
    /\ Len(history) = 15
    /\ SystemTurnsOf(history) = {}
    /\ Len(messages) = 12
    /\ messages[2] = history[6]
    /\ messages[11] = history[15]
    /\ Cardinality(SystemTurnsOf(messages)) = 1

\* generateResponse has thrown after at least one upstream request of the call
GenFailedAfterUpstream ==
    /\ GenDone
    /\ result.kind = "throw"
    /\ Len(requests) > 0

UpstreamTexts == {CaughtError(Failure(s)).message : s \in Statuses}

\* C16: whenever generateResponse ends in failure after the upstream failed,
\* the error it throws carries neither the upstream's error text nor the
\* upstream's status.
C16_GenericFailure ==
    GenFailedAfterUpstream
    => /\ result.error.cause \notin UpstreamTexts
       /\ result.error.message \notin UpstreamTexts
       /\ "status" \notin DOMAIN result.error

\* validateResponse has been called, with a non-empty string or not
Validated == validation # NoValidation

ValidatedText == Validated /\ ~RejectedArgument(validated)

IssueSet == {validation.issues[i] : i \in DOMAIN validation.issues}

ValidatedStarts == WordStarts(validated.text)

GiveUpExample == <<"y", "o", "u", " ", "s", "h", "o", "u", "l", "d", " ", "j", "u", "s", "t", " ", "g", "i", "v", "e", " ", "u", "p">>
UnderstandPhrase == <<"I", " ", "u", "n", "d", "e", "r", "s", "t", "a", "n", "d">>

\* the text is the phrase, alone or followed by a character outside words
BeginsWithPhrase(text, phrase) ==
    /\ Len(text) >= Len(phrase)
    /\ SubSeq(text, 1, Len(phrase)) = phrase
    /\ Len(text) > Len(phrase) => text[Len(phrase) + 1] \notin WordChars

\* C17: validateResponse reports every issue kind whose scan matches (harmful
\* language, medical advice, lacks supportive language, too long), each at
\* most once, and isValid is true exactly when the issue list is empty; a
\* text with the phrase 'give up' has the harmful-language issue and is not
\* valid.
C17_AllIssuesReported ==
    Validated
    => /\ validation.isValid = (validation.issues = <<>>)
       /\ Cardinality(IssueSet) = Len(validation.issues)
       /\ ~RejectedArgument(validated)
          => /\ (IssueHarmful \in IssueSet) = HarmfulScan(validated.text, ValidatedStarts)
             /\ (IssueMedical \in IssueSet) = MedicalScan(validated.text, ValidatedStarts)
             /\ (IssueUnsupportive \in IssueSet) =
                    (~SupportiveScan(validated.text, ValidatedStarts)
                       /\ Len(validated.text) > SupportiveCheckLength)
             /\ (IssueTooLong \in IssueSet) = (Len(validated.text) > MaxResponseLength)
             /\ BeginsWithPhrase(validated.text, GiveUpExample)
                => IssueHarmful \in IssueSet /\ ~validation.isValid

C17_Witness ==
    /\ ValidatedText
    /\ validation.issues = <<IssueHarmful, IssueMedical, IssueUnsupportive, IssueTooLong>>
    /\ ~validation.isValid

\* C18: validateResponse reports the lacks-supportive-language issue exactly
\* when the text has no supportive marker and is longer than 100 characters,
\* and the too-long issue exactly when it is longer than 1500 characters; at
\* exactly 100 and exactly 1500 characters it reports neither; a text of 1600
\* characters with 'I understand' is too long and does not lack supportive
\* language.
C18_LengthLimits ==
    ValidatedText
    => /\ validation.length = Len(validated.text)
       /\ (IssueUnsupportive \in IssueSet) =
              (~validation.hasSupportiveLanguage /\ validation.length > 100)
       /\ (IssueTooLong \in IssueSet) = (validation.length > 1500)
       /\ validation.length = 100 => IssueUnsupportive \notin IssueSet
       /\ validation.length = 1500 => IssueTooLong \notin IssueSet
       /\ (validation.length >= 1600 /\ BeginsWithPhrase(validated.text, UnderstandPhrase))
          => /\ validation.hasSupportiveLanguage
             /\ IssueTooLong \in IssueSet
             /\ IssueUnsupportive \notin IssueSet

C18_Witness ==
    /\ ValidatedText
    /\ Len(validated.text) = MaxTextLen
    /\ BeginsWithPhrase(validated.text, UnderstandPhrase)
    /\ validation.issues = <<IssueTooLong>>

\* the latest request of generateResponse was answered with a completion
\* whose trimmed content is not empty
CompletionReceived ==
    /\ GenRunning
    /\ Len(requests) > 0
    /\ requests[Len(requests)].outcome.kind = "ok"
    /\ Trim(requests[Len(requests)].outcome.content) # <<>>

\* a step of validateResponse
ValidateStep == validated' # NoArgument /\ <<validated, validation>>' # <<validated, validation>>

\* C19: validation is advisory: generateResponse returns the trimmed content
\* of the upstream completion whether or not validateResponse would accept
\* it, and validateResponse changes neither the text it is given nor what
\* generateResponse returned.
C19_ValidationAdvisory ==
    /\ [](CompletionReceived
          => /\ pc = "done"
             /\ result = Returned(Trim(requests[Len(requests)].outcome.content)))
    /\ [][ValidateStep
          => /\ validation' = ValidateResponse(validated')
             /\ "text" \notin validation'.fields
             /\ UNCHANGED <<result, requests, model>>]_vars

C19_Witness ==
    /\ GenDone
    /\ result.kind = "return"
    /\ result.value = Trim(HarmfulContent)
    /\ validated = Str(result.value)
    /\ ~validation.isValid

\* _preprocessText has been called with a string
Preprocessed == rawText # NoArgument /\ rawText.type = "string"

\* C20: _preprocessText is idempotent: normalizing the text it returned
\* gives that text again.
C20_NormalizeIdempotent ==
    Preprocessed => PreprocessText(processed) = processed

\* a step that writes this.model is the end of a probe that was answered
\* with a completion carrying a choice, and it writes the probed candidate
ModelWrittenByProbe ==
    model' # model
    => /\ pc = "probe"
       /\ probeResult' = ProbeReturned(model')
       /\ probes'[Len(probes')].model = model'
       /\ HasChoice(probes'[Len(probes')].outcome)

NoNotFound == \A i \in 1..Len(requests) : RequestClass(i) # "NotFound"

\* C21: no step changes the candidate list; the current model is written only
\* by a probe that succeeded; a generateResponse call without a NotFound
\* attempt, a generateCrisisResponse call and a validateResponse call leave the
\* current model as it was.
C21_ModelFrame ==
    /\ [][preferredModels' = preferredModels /\ ModelWrittenByProbe]_vars
    /\ []((GenRunning /\ NoNotFound) => model = modelBefore)
    /\ [](op = "generateCrisisResponse" => model = modelBefore)
    /\ [][ValidateStep => model' = model]_vars

C21_Witness ==
    /\ GenDone
    /\ Len(requests) = maxRetries
    /\ NoNotFound
    /\ model = ConfiguredModels[2]
    /\ model = modelBefore
    /\ preferredModels = ConfiguredModels
    /\ validated # NoArgument

\* C22: every generateResponse call ends: whatever the upstream answers, the
\* call comes to return a response or to throw an error.
C22_GenerateTerminates ==
    GenRunning ~> (GenDone /\ result.kind \in {"return", "throw"})

C22_Witness ==
    /\ GenDone
    /\ Len(requests) = maxRetries
    /\ Len(repins) = 1
    /\ Len(sleeps) = 1
    /\ result.kind = "return"

\* the re-pins generateResponse has asked for in this call, the one in
\* progress included
RepinsAsked == Len(repins) + (IF pc = "probe" THEN 1 ELSE 0)

\* C23: within one generateResponse call findBestAvailableModel is called at
\* most once, after the first NotFound of the call, also when that re-pin
\* failed.
C23_RepinAtMostOnce ==
    GenRunning
    => /\ RepinsAsked <= 1
       /\ \A k \in 1..Len(repins) : FirstNotFound(repins[k].after)

\* C24: after an attempt on a model failed with NotFound and the re-pin
\* succeeded, the model the re-pin returned, which is the model of the retry
\* and the current model, is a candidate other than the model that failed.
C24_NotFoundDemoted ==
    GenRunning =>
        \A k \in 1..Len(repins) :
            (repins[k].pinned # NotPinned
               /\ ClassOf(requests[repins[k].after].outcome) = "NotFound")
            => /\ repins[k].pinned # requests[repins[k].after].model
               /\ \E i \in DOMAIN preferredModels : repins[k].pinned = preferredModels[i]

ServerStatuses == {s \in Statuses : s >= 500}

\* the attempt i of the call, failed and not the last allowed one, has been
\* followed by a sleep of retryDelay * i and then by the next attempt; failed
\* and the last allowed one, it has ended the call with the composite error
\* that carries its message
HandledAsServerError(i) ==
    IF requests[i].attempt < maxRetries
    THEN /\ \E k \in 1..Len(sleeps) :
               sleeps[k] = [after |-> i, ms |-> retryDelay * requests[i].attempt]
         /\ Len(requests) > i \/ pc = "sleep"
    ELSE /\ i = Len(requests)
         /\ pc = "done"
         /\ result = Thrown(CompositeError(maxRetries, CaughtError(requests[i].outcome).message))

\* C27: a failure without a status is handled like a ServerError: on every
\* attempt the catch block decides the same for both, and at the same position
\* of a call both give the same sleep and the same next attempt, or the same
\* composite error at the end.
C27_UnknownLikeServerError ==
    /\ \A att \in 1..maxRetries : \A s \in ServerStatuses :
          /\ RetryPolicy(NoStatus, att) = RetryPolicy(s, att)
          /\ \A tried \in BOOLEAN :
                WantsModelFallback(NoStatus, tried) = WantsModelFallback(s, tried)
    /\ GenRunning
       => \A i \in 1..Len(requests) :
             RequestClass(i) \in {"Unknown", "ServerError"} => HandledAsServerError(i)

C27_Witness ==
    /\ GenDone
    /\ Len(requests) = maxRetries
    /\ requests[1].outcome = Failure(NoStatus)
    /\ requests[2].outcome = Failure(500)
    /\ requests[3].outcome = Failure(NoStatus)
    /\ sleeps = <<[after |-> 1, ms |-> retryDelay], [after |-> 2, ms |-> 2 * retryDelay]>>
    /\ result.kind = "throw"

\* the attempts 1..i have all failed with RateLimited, ServerError or Unknown
RetryableUpTo(i) == \A j \in 1..i : RequestClass(j) \in RetryableClasses

\* C28: retryable failures are absorbed: when the attempts before the latest
\* have failed only with RateLimited, ServerError or Unknown and the latest
\* has succeeded, generateResponse has returned the latest attempt's response;
\* no error has reached the caller while the failed attempts are fewer than
\* maxRetries.
C28_RetryableAbsorbed ==
    GenRunning
    => /\ (/\ Len(requests) >= 1
           /\ RetryableUpTo(Len(requests) - 1)
           /\ RequestClass(Len(requests)) = "Success")
          => /\ pc = "done"
             /\ result.kind = "return"
             /\ result.value = Trim(requests[Len(requests)].outcome.content)
             /\ result.error = NoError
       /\ (Len(requests) < maxRetries /\ RetryableUpTo(Len(requests)))
          => result.kind # "throw" \/ requests = <<>>

C28_Witness ==
    /\ GenDone
    /\ Len(requests) = maxRetries
    /\ RequestClass(1) = "ServerError"
    /\ requests[2].outcome = NoChoices
    /\ RequestClass(maxRetries) = "Success"
    /\ result.kind = "return"
    /\ Len(sleeps) = maxRetries - 1

\* C29: when the last allowed attempt of generateResponse fails with
\* RateLimited, the call ends with the rate-limit error 'Rate limit exceeded.
\* Please try again later.' and with no other error.
C29_RateLimitMessage ==
    GenRunning =>
        \A i \in 1..Len(requests) :
            (requests[i].attempt = maxRetries /\ RequestClass(i) = "RateLimited")
            => /\ i = Len(requests)
               /\ pc = "done"
               /\ result = Thrown(ErrRateLimit)
               /\ result.error.message = "Rate limit exceeded. Please try again later."

C29_Witness ==
    /\ GenDone
    /\ Len(requests) = maxRetries
    /\ RequestClass(1) = "ServerError"
    /\ RequestClass(2) = "RateLimited"
    /\ RequestClass(maxRetries) = "RateLimited"
    /\ result = Thrown(ErrRateLimit)

\* C30: when the service is not configured, or the message is empty or not a
\* string, generateResponse fails without a completion request, a probe or a
\* sleep; findBestAvailableModel on a service that is not configured fails
\* without a probe; the current model is unchanged.
C30_FatalBeforeIO ==
    /\ (GenRunning /\ (~apiKey \/ message.type # "string" \/ message.text = <<>>))
       => /\ pc = "done"
          /\ result = Thrown(IF ~apiKey THEN ErrNotConfigured ELSE ErrInvalidMessage)
          /\ requests = <<>>
          /\ probes = <<>>
          /\ sleeps = <<>>
          /\ model = modelBefore
    /\ (op = "findBestAvailableModel" /\ ~apiKey)
       => /\ pc = "done"
          /\ probeResult = ProbeThrown(ErrProbeNotConfigured)
          /\ probes = <<>>
          /\ model = modelBefore

C30_Witness ==
    /\ GenDone
    /\ apiKey
    /\ message = [type |-> "string", text |-> <<>>]
    /\ result = Thrown(ErrInvalidMessage)
    /\ requests = <<>>
    /\ model = ConfiguredModels[2]

Listed(m) == \E i \in DOMAIN preferredModels : preferredModels[i] = m

\* C25: whatever calls of generateResponse, generateCrisisResponse,
\* findBestAvailableModel and testConnection run, one after the other or
\* interleaved, this.model is one of this.preferredModels.
C25_ModelListed == Listed(model)

C25_Witness ==
    /\ model = ConfiguredModels[2]
    /\ tasks["A"].outer = "testConnection"
    /\ tasks["A"].op = "generateResponse"
    /\ tasks["A"].pc = "sleep"
    /\ tasks["B"].op = "generateCrisisResponse"
    /\ tasks["B"].pc = "crisis"

TaskRunning(c) == tasks[c].pc \notin {"idle", "done"}

\* every completion request of the generateResponse call of task c named the
\* model that was current when the call began or, after the call's own
\* re-pin, the model that re-pin returned
OwnModelOnly(c) ==
    tasks[c].op = "generateResponse"
    => \A i \in 1..Len(tasks[c].used) :
          tasks[c].used[i].model =
              IF tasks[c].used[i].afterPin THEN tasks[c].pinned ELSE tasks[c].startModel

\* C26: concurrent generateResponse calls that race to re-pin need no mutual
\* exclusion: every call ends, and every completion attempt of a call names
\* the model that was current when the call began or the model the call's own
\* re-pin returned, never what another call's re-pin wrote in between.
C26_RacingRepins ==
    /\ [](\A c \in Tasks : OwnModelOnly(c))
    /\ \A c \in Tasks : TaskRunning(c) ~> tasks[c].pc = "done"

C26_Witness ==
    /\ tasks["A"].op = "generateResponse"
    /\ tasks["B"].op = "generateResponse"
    /\ tasks["A"].pc = "completion"
    /\ tasks["A"].startModel = ConfiguredModels[1]
    /\ tasks["A"].pinned = NotPinned
    /\ Len(tasks["A"].used) = maxRetries
    /\ tasks["B"].startModel = ConfiguredModels[1]
    /\ tasks["B"].pinned = ConfiguredModels[2]
    /\ tasks["B"].pc = "completion"
    /\ model = ConfiguredModels[2]

CrisisRan == op = "generateCrisisResponse"

\* one generateCrisisResponse call: at most one request, fewer than
\* maxRetries, no sleep, no probe, max_tokens 150
CrisisBudget ==
    CrisisRan
    => /\ Len(requests) <= 1
       /\ Len(requests) < maxRetries
       /\ sleeps = <<>>
       /\ probes = <<>>
       /\ repins = <<>>
       /\ RequestedMaxTokens = crisisMaxTokens

EmptyCompletion(o) ==
    \/ o.kind \in {"noChoices", "noMessage", "nullContent"}
    \/ o.kind = "ok" /\ Trim(o.content) = <<>>

\* C32: generateResponse never returns an empty string: a completion without
\* choices or message, or with a content that is empty after trimming, is a
\* failed attempt, retried with the backoff of an error without status.
C32_NeverEmpty ==
    GenRunning
    => /\ result.kind = "return" => result.value # <<>>
       /\ \A i \in 1..Len(requests) :
             EmptyCompletion(requests[i].outcome)
             => /\ RequestClass(i) = "Unknown"
                /\ CaughtError(requests[i].outcome).status = NoStatus
                /\ HandledAsServerError(i)

C32_Witness ==
    /\ GenDone
    /\ Len(requests) = maxRetries
    /\ requests[1].outcome = Completion(<<" ">>)
    /\ requests[2].outcome = NoChoices
    /\ requests[3].outcome = Completion(<<"a">>)
    /\ result = Returned(<<"a">>)
    /\ Len(sleeps) = 2

\* C33: generateCrisisResponse never returns an empty string: whatever the
\* upstream answers, the caller receives a non-empty crisis message.
C33_CrisisNeverEmpty ==
    (CrisisRan /\ pc = "done") => (result.kind = "return" /\ result.value # <<>>)

\* the history turns of the message list: all but the first and the last
SentHistory == SubSeq(messages, 2, Len(messages) - 1)

\* a step of the call that is running, its entry apart
CallStep == pc \notin {"idle", "done"}

ValidationResultFields == {"isValid", "issues", "hasSupportiveLanguage", "length"}

\* C35: every result of validateResponse, also for an empty or non-string
\* argument, has the four fields isValid, issues, hasSupportiveLanguage and
\* length.
C35_CompleteResult ==
    Validated => validation.fields = ValidationResultFields

\* C36: the hardcoded fallback message of generateCrisisResponse passes
\* validateResponse: no harmful-language, medical-advice,
\* lacks-supportive-language or too-long issue, and isValid is true.
C36_FallbackValid ==
    (Validated /\ CrisisRan /\ validated.text = FallbackMessage)
    => /\ validation.isValid
       /\ validation.issues = <<>>
       /\ validation.hasSupportiveLanguage
       /\ validation.length = Len(FallbackMessage)
       /\ ~HarmfulScan(FallbackMessage, WordStarts(FallbackMessage))
       /\ ~MedicalScan(FallbackMessage, WordStarts(FallbackMessage))
       /\ ~TooLong(Len(FallbackMessage))

C36_Witness ==
    /\ Validated
    /\ CrisisRan
    /\ requests # <<>>
    /\ requests[1].outcome = Failure(500)
    /\ result = Returned(FallbackMessage)
    /\ validated.text = FallbackMessage
    /\ validation.isValid

\* C37: _preprocessText has no failure mode: no call raises an error; an
\* argument that is not a string is taken as the empty string and gives a
\* result.
C37_NormalizeNeverRaises ==
    /\ raised = NoError
    /\ (rawText # NoArgument /\ rawText.type # "string") => processed = PreprocessText(<<>>)

SentenceEnds == {".", "!", "?"}

\* the standalone integers of a text: the positions where digits begin and
\* end at word boundaries, with their values
StandaloneValues(t) ==
    {ParseInt(SubSeq(t, p, DigitRunEnd(t, p))) : p \in {q \in 1..Len(t) : NumberAt(t, q)}}

\* the text before the sentence ending is looked at
Spelled(text) == SpellNumbersFrom(ExpandFrom(Trim(CollapseFrom(text, 1)), 1), 1)

\* C38: _preprocessText replaces every standalone integer from 0 to 20 by its
\* English word and leaves the standalone integers outside this range as
\* digits; its result ends in '.', '!' or '?', a period being appended only to
\* a text that does not end in one of them.
C38_NumbersAndEnding ==
    Preprocessed
    => /\ \A v \in StandaloneValues(processed) : v > 20
       /\ StandaloneValues(processed) =
              {v \in StandaloneValues(Trim(CollapseFrom(rawText.text, 1))) : v > 20}
       /\ \A n \in 0..MaxNumber :
             rawText.text = Decimal(n)
             => processed = (IF n <= 20 THEN numbers[n + 1] ELSE Decimal(n)) \o <<".">>
       /\ rawText.text = <<"2", "0">> => processed = <<"t", "w", "e", "n", "t", "y", ".">>
       /\ processed # <<>>
       /\ processed[Len(processed)] \in SentenceEnds
       /\ LET body == Spelled(rawText.text) IN
          IF body # <<>> /\ body[Len(body)] \in SentenceEnds
          THEN processed = body
          ELSE processed = body \o <<".">>

C38_Witness ==
    /\ Preprocessed
    /\ rawText.text = <<"x", " ", " ", "5">>
    /\ processed = <<"x", " ", "f", "i", "v", "e", ".">>

AudioValidated == audioValidation # NoAudioValidation

\* C39: validateAudioFile never raises: every call returns a result whose
\* isValid is true exactly when its errors list is empty; for a missing
\* (null or undefined) or empty buffer the result is not valid and carries
\* the error 'Audio file is empty or invalid'.
C39_AudioResultNeverRaises ==
    AudioValidated
    => /\ audioValidation.kind = "return"
       /\ audioValidation.isValid = (audioValidation.errors = <<>>)
       /\ (Missing(audioChecked.buffer) \/ audioChecked.buffer.length = 0)
          => /\ ~audioValidation.isValid
             /\ \E i \in 1..Len(audioValidation.errors) :
                   audioValidation.errors[i] = ErrAudioEmpty

====
